---------------------------- MODULE Spec2Model ----------------------------
(***************************************************************************)
(* Components of the centurion library, each with a specification of its   *)
(* own over the shared variables:                                          *)
(*   the mouse-state tracker, in its two variants:                         *)
(*     cen::mouse_state       (include/mouse_state.hpp), which remaps the  *)
(*                            raw pointer position with float arithmetic   *)
(*                            and takes the window size as arguments of    *)
(*                            update;                                      *)
(*     centurion::MouseState  (src/mouse_state.cpp), which remaps it with  *)
(*                            integer division and stores the window size; *)
(*     `variant` says which class the tracker is an instance of, and is    *)
(*     "none" in the runs of the other components;                         *)
(*   centurion_lib  (src/centurion.cpp): start and stop of the native      *)
(*                  libraries;                                             *)
(*   hints          (include/hints.hpp): set_hint, get_hint, callbacks;    *)
(*   Font           (Centurion/include/ctn_font.h): the style mask;        *)
(*   Log            (src/log.cpp): priorities of the log categories;       *)
(*   enumerations   (src/centurion/video/blend_mode.hpp, src/music.cpp):   *)
(*                  comparison with the native enumerations they mirror;   *)
(*   Music          (src/music.cpp): ownership of the native handle, and   *)
(*                  the fades and the volume of the mixer.                 *)
(***************************************************************************)
EXTENDS Integers, Naturals, Sequences, FiniteSets, TLC

(***************************************************************************)
(* Bounds of the model.                                                    *)
(***************************************************************************)
\* update() calls are counted up to MaxUpdates; the counter saturates there
\* (it never disables update).
MaxUpdates == 2
\* Raw y coordinates run over 0..MaxRawY.
MaxRawY == 1

(***************************************************************************)
(* IEEE-754 single precision, as far as update() uses it: conversion of an *)
(* int, division, multiplication and the conversion back to int, all with  *)
(* round-to-nearest-even.  A float is 0 ([m |-> 0, e |-> 0]) or m * 2^e    *)
(* with a 24-bit significand 2^23 <= m < 2^24.  (The magnitudes update()   *)
(* produces from the model's inputs stay far from the exponent limits, so  *)
(* the exponent is unbounded here.)                                        *)
(***************************************************************************)
FLT_MANT_DIG == 24

Pow2(n) == 2 ^ n

RECURSIVE BitLen(_)
BitLen(n) == IF n = 0 THEN 0 ELSE 1 + BitLen(n \div 2)

\* Round-to-nearest-even of a significand m (already cut to at most 24 bits)
\* given the first dropped bit (guard) and whether any later dropped bit is set.
RoundNearestEven(m, e, guard, sticky) ==
    LET up == guard /\ (sticky \/ m % 2 = 1)
        m1 == IF up THEN m + 1 ELSE m
    IN  IF m1 = Pow2(FLT_MANT_DIG)
        THEN [m |-> Pow2(FLT_MANT_DIG - 1), e |-> e + 1]
        ELSE [m |-> m1, e |-> e]

\* static_cast<float>(n) for an int n >= 0.
IntToFloat(n) ==
    LET len == BitLen(n)
    IN  IF n = 0 THEN [m |-> 0, e |-> 0]
        ELSE IF len <= FLT_MANT_DIG
        THEN [m |-> n * Pow2(FLT_MANT_DIG - len), e |-> len - FLT_MANT_DIG]
        ELSE LET d    == len - FLT_MANT_DIG
                 rest == n % Pow2(d)
             IN  RoundNearestEven(n \div Pow2(d), d,
                                  rest >= Pow2(d - 1),
                                  rest % Pow2(d - 1) # 0)

\* Long division of the significands, n more quotient bits at a time: from
\* <<quotient so far, remainder>> (remainder < d < 2^24, n <= 7).
DivStep(qr, d, n) ==
    LET scaled == qr[2] * Pow2(n)
    IN  <<qr[1] * Pow2(n) + (scaled \div d), scaled % d>>

\* x / y in single precision (y # 0).  The quotient of the significands lies
\* in (1/2, 2); its leading bit and 23 more make the 24-bit significand.
FloatDiv(x, y) ==
    IF x.m = 0 THEN [m |-> 0, e |-> 0]
    ELSE LET big  == x.m >= y.m
             r0   == IF big THEN x.m ELSE 2 * x.m
             e0   == x.e - y.e - (FLT_MANT_DIG - 1) - (IF big THEN 0 ELSE 1)
             qr   == DivStep(DivStep(DivStep(DivStep(<<1, r0 - y.m>>,
                                 y.m, 6), y.m, 6), y.m, 6), y.m, 5)
             g    == 2 * qr[2] >= y.m
             rest == IF g THEN 2 * qr[2] - y.m ELSE 2 * qr[2]
         IN  RoundNearestEven(qr[1], e0, g, rest # 0)

\* x * y in single precision; the 48-bit product of the significands is
\* formed in 12-bit limbs.
FloatMul(x, y) ==
    IF x.m = 0 \/ y.m = 0 THEN [m |-> 0, e |-> 0]
    ELSE LET B     == Pow2(12)
             a1    == x.m \div B
             a0    == x.m % B
             b1    == y.m \div B
             b0    == y.m % B
             p0    == a0 * b0
             t1    == a1 * b0 + a0 * b1 + (p0 \div B)
             limb0 == p0 % B
             limb1 == t1 % B
             hi    == a1 * b1 + (t1 \div B)
             e0    == x.e + y.e
         IN  IF hi >= Pow2(FLT_MANT_DIG - 1)
             THEN RoundNearestEven(hi, e0 + 24,
                                   limb1 >= Pow2(11),
                                   limb1 % Pow2(11) # 0 \/ limb0 # 0)
             ELSE RoundNearestEven(2 * hi + (limb1 \div Pow2(11)), e0 + 23,
                                   (limb1 \div Pow2(10)) % 2 = 1,
                                   limb1 % Pow2(10) # 0 \/ limb0 # 0)

\* static_cast<int>(x) for a float x >= 0: truncation toward zero.
FloatToInt(x) ==
    IF x.e >= 0 THEN x.m * Pow2(x.e)
    ELSE IF -x.e > FLT_MANT_DIG THEN 0
    ELSE x.m \div Pow2(-x.e)


(***************************************************************************)
(* Inputs.  The polling primitive (SDL_GetMouseState) returns a button     *)
(* mask and the pointer position in window pixels; the application passes  *)
(* or sets window and logical dimensions, any int.                         *)
(***************************************************************************)
\* Scope(...) collects the input sets one specification explores:
\*   Xs, Ys    raw pointer coordinates returned by the polling primitive
\*   Ws, Hs    window widths / heights (arguments of update and of the
\*             window setters)
\*   LWs, LHs  arguments of set_logical_width / set_logical_height
\*   Wins      sizes a Window reports from get_width() / get_height()
\*   Masks     button masks returned by the polling primitive
Scope(Xs, Ys, Ws, Hs, LWs, LHs, Wins, Masks) ==
    [Xs |-> Xs, Ys |-> Ys, Ws |-> Ws, Hs |-> Hs, LWs |-> LWs, LHs |-> LHs,
     Wins |-> Wins, Masks |-> Masks]

\* SDL_BUTTON(X) is the mask bit (1 << (X - 1)).
SDL_BUTTON_LEFT == 1
SDL_BUTTON_MIDDLE == 2
SDL_BUTTON_RIGHT == 3
SDL_BUTTON(X) == Pow2(X - 1)
LeftBit == SDL_BUTTON(SDL_BUTTON_LEFT)
RightBit == SDL_BUTTON(SDL_BUTTON_RIGHT)

\* (mask & bit) converted to bool, bit a power of two.
MaskTest(mask, bit) == (mask \div bit) % 2 = 1

\* detail::max
max(a, b) == IF a < b THEN b ELSE a

\* C++ integer division: the quotient truncated toward zero (b # 0).
IntDiv(a, b) ==
    LET abs(v) == IF v < 0 THEN -v ELSE v
        q == abs(a) \div abs(b)
    IN  IF (a < 0) = (b < 0) THEN q ELSE -q

VARIABLES
    variant,            \* "mouse_state" (hpp) or "MouseState" (cpp)
    divByZero,          \* what an int division by zero does in this build
    status,             \* "running", or "trapped" once the process was killed
    mouseX, mouseY, oldX, oldY,
    leftPressed, rightPressed, prevLeftPressed, prevRightPressed,
    logicalWidth, logicalHeight,
    windowWidth, windowHeight,  \* fields of MouseState only
    rawX, rawY,         \* the position the last SDL_GetMouseState returned
    rawMask,            \* the button mask it returned
    used,               \* what the last update() computed with: the window
                        \* size given (w, h), the divisors (dw, dh) and the
                        \* logical size (lw, lh)
    updates             \* update() calls so far, saturating at MaxUpdates

\* centurion_lib and the native libraries it initialises.
VARIABLES
    m_cfg,              \* the centurion_config the last constructor was given
    libState,           \* "none": no centurion_lib object; "alive": the
                        \* constructor returned; else the error it threw
    native,             \* the native initialisation calls the last
                        \* constructor made, each with the value it returned
    initialised,        \* the native libraries initialised at this moment
    shutdowns           \* the libraries the last constructor and the
                        \* destructor after it shut down, in call order

trackerVars == <<variant, divByZero, status, mouseX, mouseY, oldX, oldY,
                 leftPressed, rightPressed, prevLeftPressed, prevRightPressed,
                 logicalWidth, logicalHeight, windowWidth, windowHeight,
                 rawX, rawY, rawMask, used, updates>>
libVars == <<m_cfg, libState, native, initialised, shutdowns>>

\* The hint API and the native hint store behind it.
VARIABLES
    hints,              \* the native hint store: the hints that are set,
                        \* by name, each with its text and priority
    handles,            \* the hint_callback objects alive
    registered,         \* the callbacks the native library has registered
    hintOutcome,        \* how the last hint operation ended: "returned",
                        \* the exception it threw, or "terminate" when
                        \* std::terminate ended the process
    hintReturned        \* the value that the last set_hint returned

hintVars == <<hints, handles, registered, hintOutcome, hintReturned>>

\* A Font.
VARIABLES
    font,               \* "none", or "open": the Font object exists
    styleMask,          \* Font::styleMask
    size,               \* Font::size
    outline,            \* the outline of the native font, in pixels
    fontCall            \* the member function called last, with its argument

fontVars == <<font, styleMask, size, outline, fontCall>>

\* The log: the priorities the native library keeps.
VARIABLES
    SDL_loglevels,      \* the categories given a priority of their own
    SDL_default_priority, SDL_assert_priority, SDL_application_priority,
    SDL_test_priority

logVars == <<SDL_loglevels, SDL_default_priority, SDL_assert_priority,
             SDL_application_priority, SDL_test_priority>>

\* The mirrored enumerations: the comparison evaluated last.
VARIABLES
    compared            \* the operands and the results of the four operators

enumVars == <<compared>>

\* Music: the Music objects and the state of the native mixer.
VARIABLES
    m_music,            \* Music::m_music of every live object (0 is nullptr)
    Mix_loaded,         \* the handles Mix_LoadMUS has returned are 1 .. Mix_loaded
    Mix_freed,          \* how often Mix_FreeMusic was called on a handle
    music_playing,      \* the handle the mixer plays (0: none)
    music_fading,       \* the Mix_Fading status of the music played
    fade_ms,            \* the duration of the fade in progress
    music_volume,       \* the volume of the music channel
    mixCall,            \* the native mixer call made last, with its arguments
    musicCall           \* the member function the last step called, or none

musicVars == <<m_music, Mix_loaded, Mix_freed, music_playing, music_fading,
               fade_ms, music_volume, mixCall, musicCall>>

vars == <<trackerVars, libVars, hintVars, fontVars, logVars, enumVars,
          musicVars>>

\* What the operations of one component leave alone: the other components.
outsideTracker == <<libVars, hintVars, fontVars, logVars, enumVars, musicVars>>
outsideLib == <<trackerVars, hintVars, fontVars, logVars, enumVars, musicVars>>
outsideHints == <<trackerVars, libVars, fontVars, logVars, enumVars, musicVars>>
outsideFont == <<trackerVars, libVars, hintVars, logVars, enumVars, musicVars>>
outsideLog == <<trackerVars, libVars, hintVars, fontVars, enumVars, musicVars>>
outsideEnums == <<trackerVars, libVars, hintVars, fontVars, logVars, musicVars>>
outsideMusic == <<trackerVars, libVars, hintVars, fontVars, logVars, enumVars>>

history == <<mouseX, mouseY, oldX, oldY,
             leftPressed, rightPressed, prevLeftPressed, prevRightPressed>>
observed == <<rawX, rawY, rawMask, used, updates>>
build == <<variant, divByZero>>

NothingObserved ==
    /\ rawX = 0 /\ rawY = 0 /\ rawMask = 0 /\ updates = 0
    /\ used = [w |-> 1, h |-> 1, dw |-> 1, dh |-> 1, lw |-> 1, lh |-> 1]

\* Mutant: the previous-snapshot flags initialised to true.
MemberInit_PrevPressed ==
    /\ mouseX = 0 /\ mouseY = 0 /\ oldX = 0 /\ oldY = 0
    /\ logicalWidth = 1 /\ logicalHeight = 1
    /\ leftPressed = FALSE /\ rightPressed = FALSE
    /\ prevLeftPressed = TRUE /\ prevRightPressed = TRUE

\* Member initialisers of cen::mouse_state.
MemberInit ==
    /\ mouseX = 0 /\ mouseY = 0 /\ oldX = 0 /\ oldY = 0
    /\ logicalWidth = 1 /\ logicalHeight = 1
    /\ leftPressed = FALSE /\ rightPressed = FALSE
    /\ prevLeftPressed = FALSE /\ prevRightPressed = FALSE

\* cen::mouse_state has no window fields (they stay at 1, unread).
mouse_state_Init ==
    /\ variant = "mouse_state" /\ divByZero = "trap" /\ status = "running"
    /\ windowWidth = 1 /\ windowHeight = 1
    /\ MemberInit
    /\ NothingObserved

\* centurion::MouseState: position 0/0, buttons up, all dimensions 1.  The
\* build decides what x / 0 does: the division instruction traps (x86),
\* yields 0 (AArch64) or yields -1 (RISC-V).
MouseState_Init ==
    /\ variant = "MouseState" /\ status = "running"
    /\ divByZero \in {"trap", "zero", "minus_one"}
    /\ mouseX = 0 /\ mouseY = 0 /\ oldX = 0 /\ oldY = 0
    /\ logicalWidth = 1 /\ logicalHeight = 1
    /\ windowWidth = 1 /\ windowHeight = 1
    /\ leftPressed = FALSE /\ rightPressed = FALSE
    /\ prevLeftPressed = FALSE /\ prevRightPressed = FALSE
    /\ NothingObserved

\* No call has been made.
NoCalls == [c \in {} |-> 0]

\* No centurion_lib object has been constructed and no native library is
\* initialised.
NoLib ==
    /\ m_cfg = [initCore |-> TRUE, initImage |-> TRUE, initTTF |-> TRUE,
                initMixer |-> TRUE]
    /\ libState = "none"
    /\ native = NoCalls
    /\ initialised = {}
    /\ shutdowns = <<>>

\* No hint is set, no hint_callback exists.
NoHints ==
    /\ hints = NoCalls
    /\ handles = {}
    /\ registered = {}
    /\ hintOutcome = "returned"
    /\ hintReturned = TRUE

\* No Font has been created.
NoFont ==
    /\ font = "none" /\ styleMask = 0 /\ size = 0 /\ outline = 0
    /\ fontCall = <<"none">>

\* The priorities of the native log at program start: no category has one
\* of its own.
SDL_LOG_PRIORITY_VERBOSE == 1
SDL_LOG_PRIORITY_DEBUG == 2
SDL_LOG_PRIORITY_INFO == 3
SDL_LOG_PRIORITY_WARN == 4
SDL_LOG_PRIORITY_ERROR == 5
SDL_LOG_PRIORITY_CRITICAL == 6
LogStart ==
    /\ SDL_loglevels = NoCalls
    /\ SDL_default_priority = SDL_LOG_PRIORITY_CRITICAL
    /\ SDL_assert_priority = SDL_LOG_PRIORITY_WARN
    /\ SDL_application_priority = SDL_LOG_PRIORITY_INFO
    /\ SDL_test_priority = SDL_LOG_PRIORITY_VERBOSE

\* No comparison has been evaluated.
NoEnums == compared = <<"none">>

\* No Music object exists; the mixer plays nothing, at full volume.
MIX_MAX_VOLUME == 128
MIX_NO_FADING == 0
MIX_FADING_OUT == 1
MIX_FADING_IN == 2
NoMusic ==
    /\ m_music = NoCalls
    /\ Mix_loaded = 0
    /\ Mix_freed = NoCalls
    /\ music_playing = 0
    /\ music_fading = MIX_NO_FADING
    /\ fade_ms = 0
    /\ music_volume = MIX_MAX_VOLUME
    /\ mixCall = <<"none">>
    /\ musicCall = <<"none">>

\* The components a run does not use.
NoOthers == NoLib /\ NoHints /\ NoFont /\ LogStart /\ NoEnums /\ NoMusic

\* A run about the tracker: one of the two classes, and nothing else.
Init == (mouse_state_Init \/ MouseState_Init) /\ NoOthers

\* A run about another component: no tracker is used.
NoTracker ==
    /\ variant = "none" /\ divByZero = "trap" /\ status = "running"
    /\ windowWidth = 1 /\ windowHeight = 1
    /\ MemberInit
    /\ NothingObserved

CountUpdate == IF updates < MaxUpdates THEN updates + 1 ELSE updates

(***************************************************************************)
(* cen::mouse_state                                                        *)
(***************************************************************************)
\* Mutant: the snapshot is saved after polling, so "previous" is the new sample.
mouse_state_PollThenSave(x, y, mask) ==
    /\ leftPressed' = MaskTest(mask, LeftBit)
    /\ rightPressed' = MaskTest(mask, RightBit)
    /\ oldX' = x
    /\ oldY' = y
    /\ prevLeftPressed' = leftPressed'
    /\ prevRightPressed' = rightPressed'

\* Mutant: the right button is looked for at the bit of button 2.
mouse_state_SaveAndPoll_RightIsSecondBit(x, y, mask) ==
    /\ oldX' = mouseX
    /\ oldY' = mouseY
    /\ prevLeftPressed' = leftPressed
    /\ prevRightPressed' = rightPressed
    /\ leftPressed' = MaskTest(mask, LeftBit)
    /\ rightPressed' = MaskTest(mask, SDL_BUTTON(SDL_BUTTON_MIDDLE))

\* The first two blocks of update(): save the snapshot, then poll; x, y and
\* mask are what SDL_GetMouseState returns (x and y into m_mouseX, m_mouseY,
\* where the remapping reads them).
mouse_state_SaveAndPoll(x, y, mask) ==
    /\ oldX' = mouseX
    /\ oldY' = mouseY
    /\ prevLeftPressed' = leftPressed
    /\ prevRightPressed' = rightPressed
    /\ leftPressed' = MaskTest(mask, LeftBit)
    /\ rightPressed' = MaskTest(mask, RightBit)

\* Mutant: the ratio is formed by integer division.
FloatRemap_IntegerRatio(raw, window, logical) ==
    (raw \div max(window, 1)) * logical

\* The float remapping of one coordinate.
FloatRemap(raw, window, logical) ==
    LET ratio    == FloatDiv(IntToFloat(raw), IntToFloat(max(window, 1)))
        adjusted == FloatMul(ratio, IntToFloat(logical))
    IN  FloatToInt(adjusted)

mouse_state_update(W, H, x, y, mask) ==
    /\ variant = "mouse_state" /\ status = "running"
    /\ mouse_state_SaveAndPoll(x, y, mask)
    /\ mouseX' = FloatRemap(x, W, logicalWidth)
    /\ mouseY' = FloatRemap(y, H, logicalHeight)
    /\ rawX' = x /\ rawY' = y /\ rawMask' = mask
    /\ used' = [w |-> W, h |-> H, dw |-> max(W, 1), dh |-> max(H, 1),
                lw |-> logicalWidth, lh |-> logicalHeight]
    /\ updates' = CountUpdate
    /\ UNCHANGED <<outsideTracker, build, status, logicalWidth, logicalHeight,
                   windowWidth, windowHeight>>

mouse_state_reset ==
    /\ variant = "mouse_state" /\ status = "running"
    /\ logicalWidth' = 1
    /\ logicalHeight' = 1
    /\ UNCHANGED <<outsideTracker, build, status, history, windowWidth, windowHeight, observed>>

\* Mutant: the argument is added to the width already stored.
mouse_state_set_logical_width_Accumulate(w) ==
    /\ variant = "mouse_state" /\ status = "running"
    /\ logicalWidth' = max(logicalWidth + w, 1)
    /\ UNCHANGED <<outsideTracker, build, status, history, logicalHeight,
                   windowWidth, windowHeight, observed>>

mouse_state_set_logical_width(w) ==
    /\ variant = "mouse_state" /\ status = "running"
    /\ logicalWidth' = max(w, 1)
    /\ UNCHANGED <<outsideTracker, build, status, history, logicalHeight,
                   windowWidth, windowHeight, observed>>

mouse_state_set_logical_height(h) ==
    /\ variant = "mouse_state" /\ status = "running"
    /\ logicalHeight' = max(h, 1)
    /\ UNCHANGED <<outsideTracker, build, status, history, logicalWidth,
                   windowWidth, windowHeight, observed>>

\* Mutant: the rising edge instead of the falling edge.
mouse_state_was_left_button_pressed_now == leftPressed /\ ~prevLeftPressed

mouse_state_was_left_button_released == ~leftPressed /\ prevLeftPressed
mouse_state_was_right_button_released == ~rightPressed /\ prevRightPressed
mouse_state_was_mouse_moved == (mouseX # oldX) \/ (mouseY # oldY)

(***************************************************************************)
(* centurion::MouseState                                                   *)
(***************************************************************************)
\* Mutant: the snapshot is saved after polling.
MouseState_PollThenSave(x, y, mask) ==
    /\ leftPressed' = MaskTest(mask, LeftBit)
    /\ rightPressed' = MaskTest(mask, RightBit)
    /\ oldX' = x
    /\ oldY' = y
    /\ prevLeftPressed' = leftPressed'
    /\ prevRightPressed' = rightPressed'

MouseState_SaveAndPoll(x, y, mask) ==
    /\ oldX' = mouseX
    /\ oldY' = mouseY
    /\ prevLeftPressed' = leftPressed
    /\ prevRightPressed' = rightPressed
    /\ leftPressed' = MaskTest(mask, LeftBit)
    /\ rightPressed' = MaskTest(mask, RightBit)

\* Mutant: the logical size is divided, and the raw position scales it.
IntRemap_OperandsSwapped(raw, window, logical) ==
    IntDiv(logical, window) * raw

\* The integer remapping of one coordinate (window # 0).
IntRemap(raw, window, logical) == IntDiv(raw, window) * logical

\* raw / 0 is undefined behaviour; where the division does not trap, the
\* quotient is the one the build's division instruction yields.
DivByZeroRemap(logical) == (IF divByZero = "zero" THEN 0 ELSE -1) * logical

MouseState_remap(raw, window, logical) ==
    IF window = 0 THEN DivByZeroRemap(logical)
    ELSE IntRemap(raw, window, logical)

MouseState_update(x, y, mask) ==
    /\ variant = "MouseState" /\ status = "running"
    /\ IF (windowWidth = 0 \/ windowHeight = 0) /\ divByZero = "trap"
       THEN /\ status' = "trapped"
            /\ UNCHANGED <<outsideTracker, build, history, logicalWidth, logicalHeight,
                           windowWidth, windowHeight, observed>>
       ELSE /\ MouseState_SaveAndPoll(x, y, mask)
            /\ mouseX' = MouseState_remap(x, windowWidth, logicalWidth)
            /\ mouseY' = MouseState_remap(y, windowHeight, logicalHeight)
            /\ rawX' = x /\ rawY' = y /\ rawMask' = mask
            /\ used' = [w |-> windowWidth, h |-> windowHeight,
                        dw |-> windowWidth, dh |-> windowHeight,
                        lw |-> logicalWidth, lh |-> logicalHeight]
            /\ updates' = CountUpdate
            /\ UNCHANGED <<outsideTracker, build, status, logicalWidth, logicalHeight,
                           windowWidth, windowHeight>>

window_updated(window) ==
    /\ variant = "MouseState" /\ status = "running"
    /\ windowWidth' = window[1]
    /\ windowHeight' = window[2]
    /\ UNCHANGED <<outsideTracker, build, status, history, logicalWidth, logicalHeight, observed>>

\* Mutant: reset() forgets the window fields.
MouseState_reset_LogicalOnly ==
    /\ variant = "MouseState" /\ status = "running"
    /\ logicalWidth' = 1
    /\ logicalHeight' = 1
    /\ UNCHANGED <<outsideTracker, build, status, history, windowWidth, windowHeight, observed>>

MouseState_reset ==
    /\ variant = "MouseState" /\ status = "running"
    /\ logicalWidth' = 1
    /\ logicalHeight' = 1
    /\ windowWidth' = 1
    /\ windowHeight' = 1
    /\ UNCHANGED <<outsideTracker, build, status, history, observed>>

\* Mutant: the setters store their argument as given.
ClampToOne_Missing(v) == v

\* Mutant: the test is v < 0, so 0 is stored.
ClampToOne_ZeroAllowed(v) == IF v < 0 THEN 1 ELSE v

\* The four setters: if (v <= 0) v = 1; this->field = v.
ClampToOne(v) == IF v <= 0 THEN 1 ELSE v

MouseState_set_logical_width(w) ==
    /\ variant = "MouseState" /\ status = "running"
    /\ logicalWidth' = ClampToOne(w)
    /\ UNCHANGED <<outsideTracker, build, status, history, logicalHeight,
                   windowWidth, windowHeight, observed>>

MouseState_set_logical_height(h) ==
    /\ variant = "MouseState" /\ status = "running"
    /\ logicalHeight' = ClampToOne(h)
    /\ UNCHANGED <<outsideTracker, build, status, history, logicalWidth,
                   windowWidth, windowHeight, observed>>

MouseState_set_window_width(w) ==
    /\ variant = "MouseState" /\ status = "running"
    /\ windowWidth' = ClampToOne(w)
    /\ UNCHANGED <<outsideTracker, build, status, history, logicalWidth, logicalHeight,
                   windowHeight, observed>>

\* Mutant: set_window_height writes the width field as well.
MouseState_set_window_height_AlsoWidth(h) ==
    /\ variant = "MouseState" /\ status = "running"
    /\ windowHeight' = ClampToOne(h)
    /\ windowWidth' = ClampToOne(h)
    /\ UNCHANGED <<outsideTracker, build, status, history, logicalWidth, logicalHeight, observed>>

MouseState_set_window_height(h) ==
    /\ variant = "MouseState" /\ status = "running"
    /\ windowHeight' = ClampToOne(h)
    /\ UNCHANGED <<outsideTracker, build, status, history, logicalWidth, logicalHeight,
                   windowWidth, observed>>

\* Mutant: both coordinates must differ.
MouseState_was_mouse_moved_Both == mouseX # oldX /\ mouseY # oldY

MouseState_was_left_button_released == ~leftPressed /\ prevLeftPressed
MouseState_was_right_button_released == ~rightPressed /\ prevRightPressed
MouseState_was_mouse_moved == mouseX # oldX \/ mouseY # oldY

(***************************************************************************)
(* Queries on the tracker, whichever class it is.                          *)
(***************************************************************************)
was_left_button_released ==
    IF variant = "mouse_state" THEN mouse_state_was_left_button_released
    ELSE MouseState_was_left_button_released
was_right_button_released ==
    IF variant = "mouse_state" THEN mouse_state_was_right_button_released
    ELSE MouseState_was_right_button_released
was_mouse_moved ==
    IF variant = "mouse_state" THEN mouse_state_was_mouse_moved
    ELSE MouseState_was_mouse_moved
logical_width == logicalWidth
logical_height == logicalHeight

Update(S) ==
    \/ \E W \in S.Ws, H \in S.Hs, x \in S.Xs, y \in S.Ys, mask \in S.Masks :
          mouse_state_update(W, H, x, y, mask)
    \/ \E x \in S.Xs, y \in S.Ys, mask \in S.Masks :
          MouseState_update(x, y, mask)

NextIn(S) ==
    \/ Update(S)
    \/ mouse_state_reset
    \/ \E w \in S.LWs : mouse_state_set_logical_width(w)
    \/ \E h \in S.LHs : mouse_state_set_logical_height(h)
    \/ \E window \in S.Wins : window_updated(window)
    \/ MouseState_reset
    \/ \E w \in S.LWs : MouseState_set_logical_width(w)
    \/ \E h \in S.LHs : MouseState_set_logical_height(h)
    \/ \E w \in S.Ws : MouseState_set_window_width(w)
    \/ \E h \in S.Hs : MouseState_set_window_height(h)

\* The general scope: both coordinates, both logical dimensions and the
\* window width vary; the buttons change together.  No window dimension is
\* 0 here, so no division by zero occurs.
General ==
    Scope({0, 7}, 0 .. MaxRawY, {-1, 23}, {-1}, {0, 23}, {0, 2},
          {<<23, 1>>}, {0, LeftBit + RightBit})

\* The dimension scope: every dimension, in x and in y, is given values
\* below, at and above 1; the pointer rests or sits at pixel 1.
Dims ==
    Scope({0, 1}, {1}, {-1, 0, 2}, {-1, 0, 2}, {-1, 0, 2}, {-1, 0, 2},
          {<<0, 2>>, <<2, 0>>, <<2, 2>>}, {0})

\* The button scope: every combination of the two buttons, and the middle
\* button; the pointer moves, the dimensions stay small.
Buttons ==
    Scope({0, 7}, 0 .. MaxRawY, {1}, {1}, {0}, {0}, {<<1, 1>>},
          {0, LeftBit, RightBit, LeftBit + RightBit,
           SDL_BUTTON(SDL_BUTTON_MIDDLE),
           LeftBit + RightBit + SDL_BUTTON(SDL_BUTTON_MIDDLE)})

\* The remapping scope: the x coordinate over window and logical widths that
\* divide the raw position exactly and inexactly; y and the buttons rest.
Remap ==
    Scope({0, 7, 400}, {0}, {0, 23, 800}, {1}, {0, 23, 400}, {1},
          {<<0, 1>>, <<23, 1>>, <<800, 1>>}, {0})

Next == NextIn(General)

Spec == Init /\ [][Next]_vars

NextDims == NextIn(Dims)
SpecDims == Init /\ [][NextDims]_vars

NextButtons == NextIn(Buttons)
SpecButtons == Init /\ [][NextButtons]_vars

NextRemap == NextIn(Remap)
SpecRemap == Init /\ [][NextRemap]_vars

\* The tracking scope: the general scope with the pointer on the row y = 0.
Tracking ==
    Scope({0, 7}, {0}, {-1, 23}, {-1}, {0, 23}, {0, 2},
          {<<23, 1>>}, {0, LeftBit + RightBit})

NextTracking == NextIn(Tracking)
SpecTracking == Init /\ [][NextTracking]_vars

\* The ratio scope: raw x positions that are whole multiples of the window
\* width (0, 46 of 23) and that are not (7 of 23), over logical widths 1, 5
\* and 23; y and the buttons rest.
Ratio ==
    Scope({0, 7, 46}, {0}, {0, 23}, {1}, {0, 5, 23}, {1},
          {<<23, 1>>, <<0, 1>>}, {0})

NextRatio == NextIn(Ratio)
SpecRatio == Init /\ [][NextRatio]_vars

\* The mask scope: the left and right buttons with and without the middle
\* button and the two extra buttons; the pointer moves in x, the logical
\* width is 1 or 2.
SDL_BUTTON_X1 == 4
SDL_BUTTON_X2 == 5
OtherBits ==
    {0, SDL_BUTTON(SDL_BUTTON_MIDDLE),
     SDL_BUTTON(SDL_BUTTON_X1) + SDL_BUTTON(SDL_BUTTON_X2),
     SDL_BUTTON(SDL_BUTTON_MIDDLE) + SDL_BUTTON(SDL_BUTTON_X1)
        + SDL_BUTTON(SDL_BUTTON_X2)}
MaskScope ==
    Scope({0, 7}, {0}, {1}, {1}, {1, 2}, {1}, {<<1, 1>>},
          {buttons + others : buttons \in {0, LeftBit, RightBit, LeftBit + RightBit},
                              others \in OtherBits})

NextMasks == NextIn(MaskScope)
SpecMasks == Init /\ [][NextMasks]_vars

\* The range scope: the last pixel of a window (22 of 23, 0 of 1), in x, up
\* to a width that the float type cannot tell from the position of its last
\* pixel (2^24 + 1 and 2^24 both convert to 2^24); y and the buttons rest.
Range ==
    Scope({0, 22, 16777216}, {0}, {0, 23, 16777217}, {1}, {0, 23}, {1},
          {<<23, 1>>}, {0})

NextRange == NextIn(Range)
SpecRange == Init /\ [][NextRange]_vars


(***************************************************************************)
(* centurion_lib: the constructor initialises the native libraries its     *)
(* configuration asks for, the destructor closes them.  A native call      *)
(* returns what the library decides; r holds one result per call.          *)
(***************************************************************************)
\* The state an initialisation function works on: the native libraries
\* initialised, the calls made with their results, the exception in flight.
Call(s, name, result) ==
    [s EXCEPT !.native = [c \in DOMAIN @ \cup {name} |->
                             IF c = name THEN result ELSE @[c]]]
Loaded(s, library) == [s EXCEPT !.initialised = @ \cup {library}]
Throw(s, error) == [s EXCEPT !.threw = error]

init_sdl(r, s) ==
    LET result == r.SDL_Init
        t == Call(s, "SDL_Init", result)
    IN  IF result < 0 THEN Throw(t, "core_error") ELSE Loaded(t, "SDL")

init_ttf(r, s) ==
    LET result == r.TTF_Init
        t == Call(s, "TTF_Init", result)
    IN  IF result = -1 THEN Throw(t, "ttf_error") ELSE Loaded(t, "TTF")

init_img(r, s) ==
    LET flags == r.IMG_Init
        t == Call(s, "IMG_Init", flags)
    IN  IF flags = 0 THEN Throw(t, "img_error") ELSE Loaded(t, "IMG")

init_mix(r, s) ==
    LET flags == r.Mix_Init
        t == Call(s, "Mix_Init", flags)
    IN  IF flags = 0 THEN Throw(t, "mix_error")
        ELSE LET u == Call(Loaded(t, "MIX"), "Mix_OpenAudio", r.Mix_OpenAudio)
             IN  IF r.Mix_OpenAudio = -1 THEN Throw(u, "mix_error")
                 ELSE Loaded(u, "AUDIO")

\* try { ... } catch (...) { quits }: the handler closes the libraries named,
\* in this order, and does not rethrow, so the exception ends here.
CatchAll(s, quits) ==
    IF s.threw = "none" THEN s
    ELSE [s EXCEPT !.threw = "none",
                   !.initialised = @ \ {quits[i] : i \in DOMAIN quits},
                   !.shutdowns = @ \o quits]

init(cfg, r, s) ==
    LET core == IF cfg.initCore THEN init_sdl(r, s) ELSE s
    IN  IF core.threw # "none" THEN core
        ELSE LET img == IF cfg.initImage
                        THEN CatchAll(init_img(r, core), <<"SDL">>)
                        ELSE core
                 ttf == IF cfg.initTTF
                        THEN CatchAll(init_ttf(r, img), <<"IMG", "SDL">>)
                        ELSE img
             IN  IF cfg.initMixer
                 THEN CatchAll(init_mix(r, ttf), <<"TTF", "IMG", "SDL">>)
                 ELSE ttf

\* centurion_lib(cfg): m_cfg{cfg}, then init(); an exception that leaves
\* init() leaves the constructor, and no object exists.
centurion_lib_ctor(cfg, r) ==
    /\ variant = "none" /\ libState # "alive"
    /\ LET s == init(cfg, r, [initialised |-> initialised, native |-> NoCalls,
                              threw |-> "none", shutdowns |-> <<>>])
       IN  /\ m_cfg' = cfg
           /\ native' = s.native
           /\ initialised' = s.initialised
           /\ shutdowns' = s.shutdowns
           /\ libState' = IF s.threw = "none" THEN "alive" ELSE s.threw
    /\ UNCHANGED outsideLib

close ==
    initialised \ ( (IF m_cfg.initImage THEN {"IMG"} ELSE {})
                    \cup (IF m_cfg.initTTF THEN {"TTF"} ELSE {})
                    \cup (IF m_cfg.initMixer THEN {"AUDIO", "MIX"} ELSE {})
                    \cup (IF m_cfg.initCore THEN {"SDL"} ELSE {}) )

\* close(), as the calls it makes: IMG_Quit, TTF_Quit, Mix_CloseAudio and
\* Mix_Quit, SDL_Quit, each if the configuration names its library.
closeCalls ==
    (IF m_cfg.initImage THEN <<"IMG">> ELSE <<>>)
    \o (IF m_cfg.initTTF THEN <<"TTF">> ELSE <<>>)
    \o (IF m_cfg.initMixer THEN <<"AUDIO", "MIX">> ELSE <<>>)
    \o (IF m_cfg.initCore THEN <<"SDL">> ELSE <<>>)

\* ~centurion_lib(): close().
centurion_lib_dtor ==
    /\ variant = "none" /\ libState = "alive"
    /\ initialised' = close
    /\ shutdowns' = shutdowns \o closeCalls
    /\ libState' = "none"
    /\ UNCHANGED <<outsideLib, m_cfg, native>>

\* The configurations and the results the native calls can report: SDL_Init
\* 0 or a negative error code, IMG_Init and Mix_Init the flags they loaded
\* (0: none), TTF_Init and Mix_OpenAudio 0 or -1.
Configs ==
    [initCore : BOOLEAN, initImage : BOOLEAN, initTTF : BOOLEAN,
     initMixer : BOOLEAN]
NativeResults ==
    [SDL_Init : {-1, 0}, IMG_Init : {0, 3}, TTF_Init : {-1, 0},
     Mix_Init : {0, 8}, Mix_OpenAudio : {-1, 0}]

InitLib == NoTracker /\ NoOthers
NextLib ==
    \/ \E cfg \in Configs, r \in NativeResults : centurion_lib_ctor(cfg, r)
    \/ centurion_lib_dtor
SpecLib == InitLib /\ [][NextLib]_vars


(***************************************************************************)
(* Hints.  A hint is a named text in the native hint store; the hint       *)
(* classes convert between the text and a typed value.  A text is a        *)
(* sequence of characters.                                                 *)
(***************************************************************************)
DigitChars == <<"0", "1", "2", "3", "4", "5", "6", "7", "8", "9">>
IsDigit(c) == \E i \in 1 .. 10 : DigitChars[i] = c
DigitValue(c) == (CHOOSE i \in 1 .. 10 : DigitChars[i] = c) - 1

INT_MAX == 2147483647
INT_MIN == -INT_MAX - 1

\* std::to_string of an unsigned and of an int: the decimal digits.
RECURSIVE NatToText(_)
NatToText(n) ==
    IF n < 10 THEN <<DigitChars[n + 1]>>
    ELSE NatToText(n \div 10) \o <<DigitChars[(n % 10) + 1]>>
IntToText(v) == IF v < 0 THEN <<"-">> \o NatToText(-v) ELSE NatToText(v)

\* std::to_string of a float x >= 0: "%f", six digits after the point, the
\* exact value rounded to nearest even.  (For the floats of the model, whose
\* significand has few bits set, the scaled value fits an int.)
RECURSIVE StripZeroBits(_)
StripZeroBits(x) ==
    IF x.m = 0 \/ x.m % 2 = 1 THEN x
    ELSE StripZeroBits([m |-> x.m \div 2, e |-> x.e + 1])
Pad6(digits) ==
    [i \in 1 .. 6 |-> IF i <= 6 - Len(digits) THEN "0"
                      ELSE digits[i - (6 - Len(digits))]]
FloatToText(x) ==
    LET o == StripZeroBits(x)
    IN  IF o.e >= 0
        THEN NatToText(o.m * Pow2(o.e)) \o <<".">> \o Pad6(<<>>)
        ELSE LET den    == Pow2(-o.e)
                 num    == o.m * 1000000
                 q      == num \div den
                 rem    == num % den
                 up     == 2 * rem > den \/ (2 * rem = den /\ q % 2 = 1)
                 micros == IF up THEN q + 1 ELSE q
             IN  NatToText(micros \div 1000000) \o <<".">>
                 \o Pad6(NatToText(micros % 1000000))

\* The number parsers skip leading white space, take an optional sign and
\* the longest run of digits, and ignore what follows.
isspace(c) == c \in {" ", "\t", "\n", "\r"}
RECURSIVE SkipSpace(_)
SkipSpace(t) == IF t # <<>> /\ isspace(Head(t)) THEN SkipSpace(Tail(t)) ELSE t
Negative(t) == t # <<>> /\ Head(t) = "-"
SkipSign(t) == IF t # <<>> /\ Head(t) \in {"+", "-"} THEN Tail(t) ELSE t
RECURSIVE DigitRun(_)
DigitRun(t) ==
    IF t # <<>> /\ IsDigit(Head(t)) THEN <<Head(t)>> \o DigitRun(Tail(t))
    ELSE <<>>

\* The value -(digits) accumulated as strtol does, or 1 when it is below
\* INT_MIN.
RECURSIVE NegativeValue(_, _)
NegativeValue(digits, acc) ==
    IF digits = <<>> THEN acc
    ELSE LET d == DigitValue(Head(digits))
         IN  IF acc > INT_MIN \div 10 + 1
                \/ (acc = INT_MIN \div 10 + 1 /\ d <= 8)
             THEN NegativeValue(Tail(digits), acc * 10 - d)
             ELSE 1

\* std::stoi: the int, or the exception it throws.
stoi(text) ==
    LET t   == SkipSpace(text)
        run == DigitRun(SkipSign(t))
        neg == NegativeValue(run, 0)
    IN  IF run = <<>> THEN [threw |-> "invalid_argument", value |-> 0]
        ELSE IF neg = 1 \/ (neg = INT_MIN /\ ~Negative(t))
        THEN [threw |-> "out_of_range", value |-> 0]
        ELSE [threw |-> "none", value |-> IF Negative(t) THEN neg ELSE -neg]

\* An unsigned int: 16-bit halves hi * 2^16 + lo.
Unsigned(n) == [hi |-> n \div 65536, lo |-> n % 65536]
RECURSIVE UnsignedValue(_, _)
UnsignedValue(digits, acc) ==
    IF digits = <<>> THEN acc
    ELSE LET lo == acc.lo * 10 + DigitValue(Head(digits))
             hi == acc.hi * 10 + lo \div 65536
         IN  UnsignedValue(Tail(digits),
                           [hi |-> hi % 65536, lo |-> lo % 65536])
UnsignedNegate(u) ==
    [hi |-> (65535 - u.hi + (IF u.lo = 0 THEN 1 ELSE 0)) % 65536,
     lo |-> (65536 - u.lo) % 65536]

\* static_cast<unsigned int>(std::stoul(text)) where unsigned long has 64
\* bits: the value modulo 2^32, negated modulo 2^32 after a minus sign; a
\* run of more than 19 digits is out of range.
stoul(text) ==
    LET t   == SkipSpace(text)
        run == DigitRun(SkipSign(t))
        u   == UnsignedValue(run, Unsigned(0))
    IN  IF run = <<>> THEN [threw |-> "invalid_argument", value |-> Unsigned(0)]
        ELSE IF Len(run) > 19
        THEN [threw |-> "out_of_range", value |-> Unsigned(0)]
        ELSE [threw |-> "none",
              value |-> IF Negative(t) THEN UnsignedNegate(u) ELSE u]

\* std::stof of a decimal text digits[.digits] with at most 7 digits in all:
\* the float nearest to the decimal number, with its sign.
RECURSIVE NatValue(_, _)
NatValue(digits, acc) ==
    IF digits = <<>> THEN acc
    ELSE NatValue(Tail(digits), acc * 10 + DigitValue(Head(digits)))
stof(text) ==
    LET t        == SkipSpace(text)
        u        == SkipSign(t)
        whole    == DigitRun(u)
        rest     == SubSeq(u, Len(whole) + 1, Len(u))
        fraction == IF rest # <<>> /\ Head(rest) = "."
                    THEN DigitRun(Tail(rest)) ELSE <<>>
    IN  IF whole = <<>> /\ fraction = <<>>
        THEN [threw |-> "invalid_argument", negative |-> FALSE,
              value |-> IntToFloat(0)]
        ELSE [threw |-> "none", negative |-> Negative(t),
              value |-> FloatDiv(IntToFloat(NatValue(whole \o fraction, 0)),
                                 IntToFloat(10 ^ Len(fraction)))]

\* SDL_GetHint: the text stored under the name; NoText stands for NULL.
IsSet(name) == name \in DOMAIN hints
SDL_GetHint(name) == hints[name].value

\* SDL_GetHintBoolean: the default when the hint is unset or empty, false
\* for a text that starts with '0' or reads "false" in any case, else true.
tolower(c) ==
    CASE c = "F" -> "f" [] c = "A" -> "a" [] c = "L" -> "l"
      [] c = "S" -> "s" [] c = "E" -> "e" [] OTHER -> c
SDL_GetHintBoolean(name, default) ==
    IF ~IsSet(name) THEN default
    ELSE LET text == SDL_GetHint(name)
         IN  IF text = <<>> THEN default
             ELSE IF Head(text) = "0"
                     \/ [i \in 1 .. Len(text) |-> tolower(text[i])]
                        = <<"f", "a", "l", "s", "e">>
             THEN FALSE
             ELSE TRUE

\* An optional is the set of its values: {} is std::nullopt.  A
\* current_value call returns one, or ends in an exception that leaves a
\* noexcept function.
nullopt == {}
Returns(optional) == [threw |-> "none", optional |-> optional]
Converted(parsed) ==
    [threw |-> parsed.threw,
     optional |-> IF parsed.threw = "none" THEN {parsed.value} ELSE {}]

bool_hint_current_value(name) ==
    Returns({SDL_GetHintBoolean(name, FALSE)})
string_hint_current_value(name) ==
    IF ~IsSet(name) THEN Returns(nullopt) ELSE Returns({SDL_GetHint(name)})
int_hint_current_value(name) ==
    IF ~IsSet(name) THEN Returns(nullopt)
    ELSE Converted(stoi(SDL_GetHint(name)))
unsigned_int_hint_current_value(name) ==
    IF ~IsSet(name) THEN Returns(nullopt)
    ELSE Converted(stoul(SDL_GetHint(name)))
float_hint_current_value(name) ==
    IF ~IsSet(name) THEN Returns(nullopt)
    ELSE LET parsed == stof(SDL_GetHint(name))
         IN  [threw |-> parsed.threw,
              optional |-> IF parsed.threw = "none"
                           THEN {[negative |-> parsed.negative,
                                  value |-> parsed.value]}
                           ELSE {}]

Chars_direct3d == <<"d", "i", "r", "e", "c", "t", "3", "d">>
Chars_opengl == <<"o", "p", "e", "n", "g", "l">>
Chars_opengles == Chars_opengl \o <<"e", "s">>
Chars_opengles2 == Chars_opengles \o <<"2">>
Chars_metal == <<"m", "e", "t", "a", "l">>
Chars_software == <<"s", "o", "f", "t", "w", "a", "r", "e">>

render_driver_current_value(name) ==
    IF ~IsSet(name) THEN Returns(nullopt)
    ELSE LET hint == SDL_GetHint(name)
         IN  Returns({IF hint = Chars_direct3d THEN "direct_3d"
                      ELSE IF hint = Chars_opengl THEN "open_gl"
                      ELSE IF hint = Chars_opengles THEN "open_gles"
                      ELSE IF hint = Chars_opengles2 THEN "open_gles2"
                      ELSE IF hint = Chars_metal THEN "metal"
                      ELSE "software"})

render_driver_to_string(value) ==
    CASE value = "direct_3d" -> Chars_direct3d
      [] value = "open_gl" -> Chars_opengl
      [] value = "open_gles" -> Chars_opengles
      [] value = "open_gles2" -> Chars_opengles2
      [] value = "metal" -> Chars_metal
      [] OTHER -> Chars_software
bool_hint_to_string(value) == IF value THEN <<"1">> ELSE <<"0">>
string_hint_to_string(value) == value

\* The enum-valued hint classes other than render_driver, each as the tables
\* of its two functions: current_value compares the hint with string
\* literals in order and returns the enumerator of the first that is equal,
\* or that of its last else; to_string is a switch over the enumerators,
\* whose default label stands with one of the cases.

\* The characters of the string literals.
Characters ==
    ("default" :> <<"d", "e", "f", "a", "u", "l", "t">>)
    @@ ("fast" :> <<"f", "a", "s", "t">>)
    @@ ("medium" :> <<"m", "e", "d", "i", "u", "m">>)
    @@ ("best" :> <<"b", "e", "s", "t">>)
    @@ ("nearest" :> <<"n", "e", "a", "r", "e", "s", "t">>)
    @@ ("linear" :> <<"l", "i", "n", "e", "a", "r">>)
    @@ ("0" :> <<"0">>)
    @@ ("1" :> <<"1">>)
    @@ ("direct3d" :> <<"d", "i", "r", "e", "c", "t", "3", "d">>)
    @@ ("opengl" :> <<"o", "p", "e", "n", "g", "l">>)
    @@ ("opengles" :> <<"o", "p", "e", "n", "g", "l", "e", "s">>)
    @@ ("opengles2" :> <<"o", "p", "e", "n", "g", "l", "e", "s", "2">>)
    @@ ("metal" :> <<"m", "e", "t", "a", "l">>)
    @@ ("software" :> <<"s", "o", "f", "t", "w", "a", "r", "e">>)
    @@ ("ambient" :> <<"a", "m", "b", "i", "e", "n", "t">>)
    @@ ("playback" :> <<"p", "l", "a", "y", "b", "a", "c", "k">>)
    @@ ("d3dcompiler_46.dll" :>
        <<"d", "3", "d", "c", "o", "m", "p", "i", "l", "e", "r", "_", "4",
          "6", ".", "d", "l", "l">>)
    @@ ("d3dcompiler_43.dll" :>
        <<"d", "3", "d", "c", "o", "m", "p", "i", "l", "e", "r", "_", "4",
          "3", ".", "d", "l", "l">>)
    @@ ("none" :> <<"n", "o", "n", "e">>)
    @@ ("force" :> <<"f", "o", "r", "c", "e">>)
    @@ ("ignorezero" :> <<"i", "g", "n", "o", "r", "e", "z", "e", "r", "o">>)
    @@ ("ignore" :> <<"i", "g", "n", "o", "r", "e">>)
    @@ ("maximum" :> <<"m", "a", "x", "i", "m", "u", "m">>)
    @@ ("verystrict" :> <<"v", "e", "r", "y", "s", "t", "r", "i", "c", "t">>)
    @@ ("strict" :> <<"s", "t", "r", "i", "c", "t">>)
    @@ ("dropframe" :> <<"d", "r", "o", "p", "f", "r", "a", "m", "e">>)
    @@ ("dropblock" :> <<"d", "r", "o", "p", "b", "l", "o", "c", "k">>)
    @@ ("truncate" :> <<"t", "r", "u", "n", "c", "a", "t", "e">>)
    @@ ("letterbox" :> <<"l", "e", "t", "t", "e", "r", "b", "o", "x">>)
    @@ ("overscan" :> <<"o", "v", "e", "r", "s", "c", "a", "n">>)
    @@ ("primary" :> <<"p", "r", "i", "m", "a", "r", "y">>)
    @@ ("portrait" :> <<"p", "o", "r", "t", "r", "a", "i", "t">>)
    @@ ("landscape" :> <<"l", "a", "n", "d", "s", "c", "a", "p", "e">>)
    @@ ("inverted-portrait" :>
        <<"i", "n", "v", "e", "r", "t", "e", "d", "-", "p", "o", "r", "t",
          "r", "a", "i", "t">>)
    @@ ("inverted-landscape" :>
        <<"i", "n", "v", "e", "r", "t", "e", "d", "-", "l", "a", "n", "d",
          "s", "c", "a", "p", "e">>)

\* detail::equal: the two strings have the same characters.
equal(hint, literal) == hint = Characters[literal]

audio_resampling_mode ==
    [name |-> "SDL_AUDIO_RESAMPLING_MODE",
     Value |-> {"normal", "fast", "medium", "best"},
     current_value |->
       <<<<"default", "normal">>, <<"fast", "fast">>, <<"medium", "medium">>>>,
     otherwise |-> "best",
     to_string |->
       [normal |-> "default", fast |-> "fast", medium |-> "medium",
        best |-> "best"],
     default |-> "default"]
scale_quality ==
    [name |-> "SDL_RENDER_SCALE_QUALITY",
     Value |-> {"nearest", "linear", "best"},
     current_value |->
       <<<<"nearest", "nearest">>, <<"linear", "linear">>>>,
     otherwise |-> "best",
     to_string |->
       [nearest |-> "nearest", linear |-> "linear", best |-> "best"],
     default |-> "nearest"]
framebuffer_acceleration ==
    [name |-> "SDL_FRAMEBUFFER_ACCELERATION",
     Value |-> {"off", "on", "direct_3d", "open_gl",
                "open_gles", "open_gles2", "metal", "software"},
     current_value |->
       <<<<"0", "off">>, <<"1", "on">>, <<"direct3d", "direct_3d">>,
        <<"opengl", "open_gl">>, <<"opengles", "open_gles">>,
        <<"opengles2", "open_gles2">>, <<"metal", "metal">>>>,
     otherwise |-> "software",
     to_string |->
       [off |-> "0", on |-> "1", direct_3d |-> "direct3d",
        open_gl |-> "opengl", open_gles |-> "opengles",
        open_gles2 |-> "opengles2", metal |-> "metal",
        software |-> "software"],
     default |-> "0"]
audio_category ==
    [name |-> "SDL_AUDIO_CATEGORY",
     Value |-> {"ambient", "playback"},
     current_value |->
       <<<<"ambient", "ambient">>>>,
     otherwise |-> "playback",
     to_string |->
       [ambient |-> "ambient", playback |-> "playback"],
     default |-> "ambient"]
win_d3d_compiler ==
    [name |-> "SDL_VIDEO_WIN_D3DCOMPILER",
     Value |-> {"d3d_compiler_46", "d3d_compiler_43", "none"},
     current_value |->
       <<<<"d3dcompiler_46.dll", "d3d_compiler_46">>,
        <<"d3dcompiler_43.dll", "d3d_compiler_43">>>>,
     otherwise |-> "none",
     to_string |->
       [none |-> "none", d3d_compiler_43 |-> "d3dcompiler_43.dll",
        d3d_compiler_46 |-> "d3dcompiler_46.dll"],
     default |-> "none"]
wave_riff_chunk_size ==
    [name |-> "SDL_WAVE_RIFF_CHUNK_SIZE",
     Value |-> {"force", "ignore_zero", "ignore", "maximum"},
     current_value |->
       <<<<"force", "force">>, <<"ignorezero", "ignore_zero">>,
        <<"ignore", "ignore">>>>,
     otherwise |-> "maximum",
     to_string |->
       [ignore_zero |-> "ignorezero", ignore |-> "ignore",
        force |-> "force", maximum |-> "maximum"],
     default |-> "ignorezero"]
wave_truncation ==
    [name |-> "SDL_WAVE_TRUNCATION",
     Value |-> {"very_strict", "strict", "drop_frame", "drop_block"},
     current_value |->
       <<<<"verystrict", "very_strict">>, <<"strict", "strict">>,
        <<"dropframe", "drop_frame">>>>,
     otherwise |-> "drop_block",
     to_string |->
       [drop_block |-> "dropblock", drop_frame |-> "dropframe",
        very_strict |-> "verystrict", strict |-> "strict"],
     default |-> "dropblock"]
wave_fact_chunk ==
    [name |-> "SDL_WAVE_FACT_CHUNK",
     Value |-> {"truncate", "strict", "ignore_zero", "ignore"},
     current_value |->
       <<<<"truncate", "truncate">>, <<"strict", "strict">>,
        <<"ignorezero", "ignore_zero">>>>,
     otherwise |-> "ignore",
     to_string |->
       [ignore |-> "ignore", ignore_zero |-> "ignorezero",
        truncate |-> "truncate", strict |-> "strict"],
     default |-> "ignore"]
logical_size_mode ==
    [name |-> "SDL_RENDER_LOGICAL_SIZE_MODE",
     Value |-> {"letterbox", "overscan"},
     current_value |->
       <<<<"0", "letterbox">>, <<"letterbox", "letterbox">>>>,
     otherwise |-> "overscan",
     to_string |->
       [letterbox |-> "letterbox", overscan |-> "overscan"],
     default |-> "letterbox"]
qt_wayland_content_orientation ==
    [name |-> "SDL_QTWAYLAND_CONTENT_ORIENTATION",
     Value |-> {"primary", "portrait",
                "landscape", "inverted_portrait", "inverted_landscape"},
     current_value |->
       <<<<"primary", "primary">>, <<"portrait", "portrait">>,
        <<"landscape", "landscape">>,
        <<"inverted-portrait", "inverted_portrait">>>>,
     otherwise |-> "inverted_landscape",
     to_string |->
       [primary |-> "primary", portrait |-> "portrait",
        landscape |-> "landscape",
        inverted_portrait |-> "inverted-portrait",
        inverted_landscape |-> "inverted-landscape"],
     default |-> "primary"]

EnumClasses ==
    [audio_resampling_mode |-> audio_resampling_mode,
     scale_quality |-> scale_quality,
     framebuffer_acceleration |-> framebuffer_acceleration,
     audio_category |-> audio_category,
     win_d3d_compiler |-> win_d3d_compiler,
     wave_riff_chunk_size |-> wave_riff_chunk_size,
     wave_truncation |-> wave_truncation,
     wave_fact_chunk |-> wave_fact_chunk,
     logical_size_mode |-> logical_size_mode,
     qt_wayland_content_orientation |-> qt_wayland_content_orientation]

\* current_value() of an enum-valued hint class.
enum_current_value(class, hintName) ==
    IF ~IsSet(hintName) THEN Returns(nullopt)
    ELSE LET hint  == SDL_GetHint(hintName)
             tried == class.current_value
             found == {i \in 1 .. Len(tried) : equal(hint, tried[i][1])}
         IN  Returns({IF found = {} THEN class.otherwise
                      ELSE tried[CHOOSE i \in found :
                                    \A j \in found : i <= j][2]})

\* Mutant: the switch takes its default label for every value.
enum_to_string_Default(class, value) == Characters[class.default]

\* to_string(value) of an enum-valued hint class.
enum_to_string(class, value) ==
    IF value \in DOMAIN class.to_string
    THEN Characters[class.to_string[value]]
    ELSE Characters[class.default]

\* The hint classes of the model, one of each kind, with the class template
\* each derives from and the name of its hint.
Hints ==
    {"render_driver", "vsync", "orientations", "event_logging",
     "thread_stack_size", "mouse_normal_speed_scale"}
kind(Hint) ==
    CASE Hint = "render_driver" -> "enum"
      [] Hint = "vsync" -> "bool_hint"
      [] Hint = "orientations" -> "string_hint"
      [] Hint = "event_logging" -> "int_hint"
      [] Hint = "thread_stack_size" -> "unsigned_int_hint"
      [] Hint = "mouse_normal_speed_scale" -> "float_hint"
      [] Hint \in DOMAIN EnumClasses -> "enum"
name(Hint) ==
    CASE Hint = "render_driver" -> "SDL_RENDER_DRIVER"
      [] Hint = "vsync" -> "SDL_RENDER_VSYNC"
      [] Hint = "orientations" -> "SDL_IOS_ORIENTATIONS"
      [] Hint = "event_logging" -> "SDL_EVENT_LOGGING"
      [] Hint = "thread_stack_size" -> "SDL_THREAD_STACK_SIZE"
      [] Hint = "mouse_normal_speed_scale" -> "SDL_MOUSE_NORMAL_SPEED_SCALE"
      [] Hint \in DOMAIN EnumClasses -> EnumClasses[Hint].name

current_value(Hint) ==
    CASE Hint = "render_driver" -> render_driver_current_value(name(Hint))
      [] Hint \in DOMAIN EnumClasses ->
            enum_current_value(EnumClasses[Hint], name(Hint))
      [] kind(Hint) = "bool_hint" -> bool_hint_current_value(name(Hint))
      [] kind(Hint) = "string_hint" -> string_hint_current_value(name(Hint))
      [] kind(Hint) = "int_hint" -> int_hint_current_value(name(Hint))
      [] kind(Hint) = "unsigned_int_hint" ->
            unsigned_int_hint_current_value(name(Hint))
      [] kind(Hint) = "float_hint" -> float_hint_current_value(name(Hint))

to_string(Hint, value) ==
    CASE Hint = "render_driver" -> render_driver_to_string(value)
      [] Hint \in DOMAIN EnumClasses -> enum_to_string(EnumClasses[Hint], value)
      [] kind(Hint) = "bool_hint" -> bool_hint_to_string(value)
      [] kind(Hint) = "string_hint" -> string_hint_to_string(value)
      [] kind(Hint) = "int_hint" -> IntToText(value)
      [] kind(Hint) = "unsigned_int_hint" -> NatToText(value)
      [] kind(Hint) = "float_hint" -> FloatToText(value)

\* get_hint<Hint>()
get_hint(Hint) == current_value(Hint)

\* hint_priority and SDL_SetHintWithPriority: a hint that is set keeps its
\* text against a lower priority; otherwise the text and the priority are
\* stored.
SDL_HINT_DEFAULT == 0
SDL_HINT_NORMAL == 1
SDL_HINT_OVERRIDE == 2
SDL_SetHintWithPriority(hintName, text, priority) ==
    IF IsSet(hintName) /\ priority < hints[hintName].priority THEN hints
    ELSE [h \in DOMAIN hints \cup {hintName} |->
             IF h = hintName THEN [value |-> text, priority |-> priority]
             ELSE hints[h]]
\* What SDL_SetHintWithPriority returns: SDL_FALSE when the hint is kept.
SDL_SetHintWithPriority_returns(hintName, priority) ==
    ~(IsSet(hintName) /\ priority < hints[hintName].priority)

\* set_hint<Hint, priority>(value)
set_hint(Hint, priority, value) ==
    /\ variant = "none" /\ hintOutcome # "terminate"
    /\ hints' = SDL_SetHintWithPriority(name(Hint), to_string(Hint, value),
                                        priority)
    /\ hintReturned' = SDL_SetHintWithPriority_returns(name(Hint), priority)
    /\ hintOutcome' = "returned"
    /\ UNCHANGED <<outsideHints, handles, registered>>

\* clear_hints(): SDL_ClearHints removes every hint, with the callbacks
\* registered for it.
clear_hints ==
    /\ variant = "none" /\ hintOutcome # "terminate"
    /\ hints' = NoCalls
    /\ registered' = {}
    /\ hintOutcome' = "returned"
    /\ UNCHANGED <<outsideHints, handles, hintReturned>>

\* hint_callback<Hint>(callback, userData): the members are initialised,
\* and a null callback makes the constructor throw, so no object comes to
\* exist; the result is the object or the exception.
nullptr == "nullptr"
hint_callback(Hint, callback, userData) ==
    IF callback = nullptr
    THEN [threw |-> "centurion_exception", object |-> {}]
    ELSE [threw |-> "none",
          object |-> {[hint |-> Hint, m_callback |-> callback,
                       m_userData |-> userData]}]

\* SDL_AddHintCallback ignores a null callback; otherwise the callback is
\* registered once for the name and the user data.
SDL_AddHintCallback(hintName, callback, userData) ==
    IF callback = nullptr THEN registered
    ELSE registered \cup {[name |-> hintName, callback |-> callback,
                           userData |-> userData]}
SDL_DelHintCallback(hintName, callback, userData) ==
    registered \ {[name |-> hintName, callback |-> callback,
                   userData |-> userData]}

\* A hint_callback object is constructed by the application, which catches
\* what the constructor throws.
hint_callback_ctor(Hint, callback, userData) ==
    /\ variant = "none" /\ hintOutcome # "terminate"
    /\ LET made == hint_callback(Hint, callback, userData)
       IN  /\ handles' = handles \cup made.object
           /\ hintOutcome' = IF made.threw = "none" THEN "returned"
                             ELSE made.threw
    /\ UNCHANGED <<outsideHints, hints, registered, hintReturned>>

\* The implicit destructor: the object goes away, its registration stays.
hint_callback_dtor(handle) ==
    /\ variant = "none" /\ hintOutcome # "terminate"
    /\ handles' = handles \ {handle}
    /\ hintOutcome' = "returned"
    /\ UNCHANGED <<outsideHints, hints, registered, hintReturned>>

connect(handle) ==
    /\ variant = "none" /\ hintOutcome # "terminate"
    /\ registered' = SDL_AddHintCallback(name(handle.hint), handle.m_callback,
                                         handle.m_userData)
    /\ hintOutcome' = "returned"
    /\ UNCHANGED <<outsideHints, hints, handles, hintReturned>>

disconnect(handle) ==
    /\ variant = "none" /\ hintOutcome # "terminate"
    /\ registered' = SDL_DelHintCallback(name(handle.hint), handle.m_callback,
                                         handle.m_userData)
    /\ hintOutcome' = "returned"
    /\ UNCHANGED <<outsideHints, hints, handles, hintReturned>>

\* add_hint_callback<Hint>(fun, userData) noexcept: constructs the object,
\* connects it and returns it.  The function is noexcept, so an exception
\* that leaves the constructor calls std::terminate.
add_hint_callback(Hint, fun, userData) ==
    /\ variant = "none" /\ hintOutcome # "terminate"
    /\ LET made == hint_callback(Hint, fun, userData)
       IN  IF made.threw # "none"
           THEN /\ hintOutcome' = "terminate"
                /\ UNCHANGED <<handles, registered>>
           ELSE /\ handles' = handles \cup made.object
                /\ registered' = SDL_AddHintCallback(name(Hint), fun, userData)
                /\ hintOutcome' = "returned"
    /\ UNCHANGED <<outsideHints, hints, hintReturned>>

\* The values the application sets, by hint class.
Values(Hint) ==
    CASE Hint = "render_driver" -> {"open_gl", "software"}
      [] Hint = "vsync" -> BOOLEAN
      [] Hint = "orientations" ->
            {<<"P", "o", "r", "t", "r", "a", "i", "t">>}
      [] Hint = "event_logging" -> {0, 2}
      [] Hint = "thread_stack_size" -> {4096}
      [] Hint = "mouse_normal_speed_scale" ->
            {IntToFloat(1), FloatDiv(IntToFloat(5), IntToFloat(2))}

InitHints == NoTracker /\ NoOthers
NextHints ==
    \/ \E Hint \in Hints, priority \in {SDL_HINT_NORMAL, SDL_HINT_OVERRIDE} :
          \E value \in Values(Hint) : set_hint(Hint, priority, value)
    \/ clear_hints
SpecHints == InitHints /\ [][NextHints]_vars

\* The hint classes whose values are enumerators or booleans, and the values
\* of each.
RoundTripHints == {"render_driver", "vsync"} \cup DOMAIN EnumClasses
Enumerators(Hint) ==
    IF Hint = "render_driver"
    THEN {"direct_3d", "open_gl", "open_gles", "open_gles2", "metal",
          "software"}
    ELSE IF Hint = "vsync" THEN BOOLEAN
    ELSE EnumClasses[Hint].Value

\* The application keeps at most MaxHintsSet hints set at a time.
MaxHintsSet == 1
set_hint_within(Hint, priority, value) ==
    /\ Cardinality(DOMAIN hints \cup {name(Hint)}) <= MaxHintsSet
    /\ set_hint(Hint, priority, value)

NextEnumHints ==
    \/ \E Hint \in RoundTripHints,
          priority \in {SDL_HINT_DEFAULT, SDL_HINT_NORMAL, SDL_HINT_OVERRIDE} :
          \E value \in Enumerators(Hint) :
             set_hint_within(Hint, priority, value)
    \/ clear_hints
SpecEnumHints == InitHints /\ [][NextEnumHints]_vars


\* SDL_SetHint(name, text), by which any code of the process stores a text
\* under the name of a hint.
SDL_SetHint(hintName, text) ==
    /\ variant = "none" /\ hintOutcome # "terminate"
    /\ hints' = SDL_SetHintWithPriority(hintName, text, SDL_HINT_NORMAL)
    /\ hintOutcome' = "returned"
    /\ UNCHANGED <<outsideHints, handles, registered, hintReturned>>

\* A call of get_hint<Hint>() noexcept: an exception that leaves
\* current_value() calls std::terminate.
get_hint_noexcept(Hint) ==
    /\ variant = "none" /\ hintOutcome # "terminate"
    /\ hintOutcome' = IF get_hint(Hint).threw = "none" THEN "returned"
                      ELSE "terminate"
    /\ UNCHANGED <<outsideHints, hints, handles, registered, hintReturned>>

\* The hints with an int, an unsigned int and a float value, and texts
\* stored under their names: no number, a number, a number out of range.
NumericHints == {"event_logging", "thread_stack_size",
                 "mouse_normal_speed_scale"}
Chars_abc == <<"a", "b", "c">>
Texts(Hint) ==
    CASE Hint = "event_logging" ->
            {Chars_abc, <<"4", "2">>,
             <<"2", "1", "4", "7", "4", "8", "3", "6", "4", "8">>}
      [] Hint = "thread_stack_size" ->
            {Chars_abc, <<"4", "2">>, [i \in 1 .. 20 |-> "9"]}
      [] Hint = "mouse_normal_speed_scale" ->
            {Chars_abc, <<>>, <<"1", ".", "5">>}

NextNumericHints ==
    \/ \E Hint \in NumericHints : \E text \in Texts(Hint) :
          SDL_SetHint(name(Hint), text)
    \/ \E Hint \in NumericHints : \E value \in Values(Hint) :
          set_hint(Hint, SDL_HINT_NORMAL, value)
    \/ \E Hint \in NumericHints : get_hint_noexcept(Hint)
    \/ clear_hints
SpecNumericHints == InitHints /\ [][NextNumericHints]_vars


\* The callbacks the application passes: two functions and the null pointer.
Callbacks == {nullptr, "on_hint_changed", "on_hint_logged"}
CallbackHints == {"render_driver", "vsync"}

NextCallbacks ==
    \/ \E Hint \in CallbackHints, callback \in Callbacks :
          hint_callback_ctor(Hint, callback, nullptr)
    \/ \E handle \in handles : hint_callback_dtor(handle)
    \/ \E handle \in handles : connect(handle)
    \/ \E handle \in handles : disconnect(handle)
    \/ \E Hint \in CallbackHints, fun \in Callbacks :
          add_hint_callback(Hint, fun, nullptr)
    \/ clear_hints
SpecCallbacks == InitHints /\ [][NextCallbacks]_vars


(***************************************************************************)
(* Font (Centurion/include/ctn_font.h): a True Type font with a style      *)
(* mask.  The header declares the members; the member functions are        *)
(* modelled from the header's documentation and the unit tests.            *)
(***************************************************************************)
TTF_STYLE_NORMAL == 0
TTF_STYLE_BOLD == 1
TTF_STYLE_ITALIC == 2
TTF_STYLE_UNDERLINE == 4
TTF_STYLE_STRIKETHROUGH == 8

\* a | b and a & ~b on the style bits.
StyleBits == {TTF_STYLE_BOLD, TTF_STYLE_ITALIC, TTF_STYLE_UNDERLINE,
              TTF_STYLE_STRIKETHROUGH}
RECURSIVE SumOf(_)
SumOf(bits) ==
    IF bits = {} THEN 0
    ELSE LET b == CHOOSE x \in bits : TRUE IN b + SumOf(bits \ {b})
BitsOf(mask) == {b \in StyleBits : MaskTest(mask, b)}
BitOr(a, b) == SumOf(BitsOf(a) \cup BitsOf(b))
BitAndNot(a, b) == SumOf(BitsOf(a) \ BitsOf(b))

\* Mutant: the mask is replaced by the style applied.
ApplyStyle_Replace(mask) == mask

\* ApplyStyle(mask): styleMask |= mask.
ApplyStyle(mask) == BitOr(styleMask, mask)

\* RemoveStyle(mask): styleMask &= ~mask.
RemoveStyle(mask) == BitAndNot(styleMask, mask)

\* IsValidStyle(style): a combination of the four style bits.
IsValidStyle(style) ==
    style >= TTF_STYLE_NORMAL /\ style <= SumOf(StyleBits)

FontIsOpen == variant = "none" /\ font = "open"

\* Font(path, size): the font is opened in the normal style, not outlined.
Font_ctor(pointSize) ==
    /\ variant = "none" /\ font = "none"
    /\ font' = "open"
    /\ styleMask' = TTF_STYLE_NORMAL
    /\ size' = pointSize
    /\ outline' = 0
    /\ fontCall' = <<"Font">>
    /\ UNCHANGED outsideFont

Font_dtor ==
    /\ FontIsOpen
    /\ font' = "none"
    /\ styleMask' = 0 /\ size' = 0 /\ outline' = 0
    /\ fontCall' = <<"none">>
    /\ UNCHANGED outsideFont

\* Mutant: ResetStyle leaves the mask as it is.
ResetStyle_Nothing ==
    /\ FontIsOpen
    /\ fontCall' = <<"ResetStyle", styleMask>>
    /\ UNCHANGED <<outsideFont, font, styleMask, size, outline>>

ResetStyle ==
    /\ FontIsOpen
    /\ styleMask' = TTF_STYLE_NORMAL
    /\ fontCall' = <<"ResetStyle", styleMask>>
    /\ UNCHANGED <<outsideFont, font, size, outline>>

SetStyle(style) ==
    /\ FontIsOpen
    /\ styleMask' = IF IsValidStyle(style) THEN style ELSE styleMask
    /\ fontCall' = <<"SetStyle", style>>
    /\ UNCHANGED <<outsideFont, font, size, outline>>

\* SetBold, SetItalic, SetUnderlined, SetStrikethrough: apply the style bit
\* or remove it.
SetOneStyle(function, bit, on) ==
    /\ FontIsOpen
    /\ styleMask' = IF on THEN ApplyStyle(bit) ELSE RemoveStyle(bit)
    /\ fontCall' = <<function, on>>
    /\ UNCHANGED <<outsideFont, font, size, outline>>

SetBold(isBold) == SetOneStyle("SetBold", TTF_STYLE_BOLD, isBold)
SetItalic(isItalic) == SetOneStyle("SetItalic", TTF_STYLE_ITALIC, isItalic)
SetUnderlined(isUnderlined) ==
    SetOneStyle("SetUnderlined", TTF_STYLE_UNDERLINE, isUnderlined)
SetStrikethrough(isStrikethrough) ==
    SetOneStyle("SetStrikethrough", TTF_STYLE_STRIKETHROUGH, isStrikethrough)

SetOutlined(isOutlined) ==
    /\ FontIsOpen
    /\ outline' = IF isOutlined THEN 1 ELSE 0
    /\ fontCall' = <<"SetOutlined", isOutlined>>
    /\ UNCHANGED <<outsideFont, font, styleMask, size>>

IsBold == MaskTest(styleMask, TTF_STYLE_BOLD)
IsItalic == MaskTest(styleMask, TTF_STYLE_ITALIC)
IsUnderlined == MaskTest(styleMask, TTF_STYLE_UNDERLINE)
IsStrikethrough == MaskTest(styleMask, TTF_STYLE_STRIKETHROUGH)

InitFont == NoTracker /\ NoOthers
NextFont ==
    \/ \E pointSize \in {12, 16} : Font_ctor(pointSize)
    \/ Font_dtor
    \/ ResetStyle
    \/ \E style \in {-1, TTF_STYLE_BOLD + TTF_STYLE_UNDERLINE, 16} :
          SetStyle(style)
    \/ \E isBold \in BOOLEAN : SetBold(isBold)
    \/ \E isItalic \in BOOLEAN : SetItalic(isItalic)
    \/ \E isUnderlined \in BOOLEAN : SetUnderlined(isUnderlined)
    \/ \E isStrikethrough \in BOOLEAN : SetStrikethrough(isStrikethrough)
    \/ \E isOutlined \in BOOLEAN : SetOutlined(isOutlined)
SpecFont == InitFont /\ [][NextFont]_vars


(***************************************************************************)
(* Log (src/log.h, src/log.cpp): priorities of the logging categories,     *)
(* kept by the native logging functions the class forwards to.             *)
(***************************************************************************)
SDL_LOG_CATEGORY_APPLICATION == 0
SDL_LOG_CATEGORY_ERROR == 1
SDL_LOG_CATEGORY_ASSERT == 2
SDL_LOG_CATEGORY_SYSTEM == 3
SDL_LOG_CATEGORY_AUDIO == 4
SDL_LOG_CATEGORY_VIDEO == 5
SDL_LOG_CATEGORY_RENDER == 6
SDL_LOG_CATEGORY_INPUT == 7
SDL_LOG_CATEGORY_TEST == 8
SDL_LOG_CATEGORY_CUSTOM == 19

\* enum class Priority and enum class Category.
Priority ==
    [Info |-> SDL_LOG_PRIORITY_INFO, Warn |-> SDL_LOG_PRIORITY_WARN,
     Verbose |-> SDL_LOG_PRIORITY_VERBOSE, Debug |-> SDL_LOG_PRIORITY_DEBUG,
     Critical |-> SDL_LOG_PRIORITY_CRITICAL, Error |-> SDL_LOG_PRIORITY_ERROR]
Category ==
    [App |-> SDL_LOG_CATEGORY_APPLICATION, Error |-> SDL_LOG_CATEGORY_ERROR,
     System |-> SDL_LOG_CATEGORY_SYSTEM,
     Audio |-> SDL_LOG_CATEGORY_AUDIO, Video |-> SDL_LOG_CATEGORY_VIDEO,
     Render |-> SDL_LOG_CATEGORY_RENDER, Input |-> SDL_LOG_CATEGORY_INPUT,
     Test |-> SDL_LOG_CATEGORY_TEST, Misc |-> SDL_LOG_CATEGORY_CUSTOM]
    @@ ("Assert" :> SDL_LOG_CATEGORY_ASSERT)
Priorities == {Priority[p] : p \in DOMAIN Priority}
Categories == {Category[c] : c \in DOMAIN Category}

\* SDL_LogSetPriority(category, priority) on the list of levels: the entry
\* of the category is overwritten, or a new entry is added.
SDL_LogSetPriority(levels, category, priority) ==
    [c \in DOMAIN levels \cup {category} |->
        IF c = category THEN priority ELSE levels[c]]

\* SDL_LogSetAllPriority(priority) on the list of levels: every entry there
\* is gets the priority (the defaults are set by the caller below).
SDL_LogSetAllPriority(levels, priority) ==
    [c \in DOMAIN levels |-> priority]

\* SDL_LogGetPriority(category): the entry of the category, or the default
\* of the category.
SDL_LogGetPriority(category) ==
    IF category \in DOMAIN SDL_loglevels THEN SDL_loglevels[category]
    ELSE IF category = SDL_LOG_CATEGORY_TEST THEN SDL_test_priority
    ELSE IF category = SDL_LOG_CATEGORY_APPLICATION
        THEN SDL_application_priority
    ELSE IF category = SDL_LOG_CATEGORY_ASSERT THEN SDL_assert_priority
    ELSE SDL_default_priority

\* Log::set_priority(Category, Priority).
Log_set_priority_category(category, prio) ==
    /\ variant = "none"
    /\ SDL_loglevels' = SDL_LogSetPriority(SDL_loglevels, category, prio)
    /\ UNCHANGED <<outsideLog, SDL_default_priority, SDL_assert_priority,
                   SDL_application_priority, SDL_test_priority>>

\* Mutant: only SDL_LogSetAllPriority is called.
Log_set_priority_AllOnly(prio) ==
    /\ variant = "none"
    /\ SDL_loglevels' = SDL_LogSetAllPriority(SDL_loglevels, prio)
    /\ SDL_default_priority' = prio
    /\ SDL_assert_priority' = prio
    /\ SDL_application_priority' = prio
    /\ UNCHANGED <<outsideLog, SDL_test_priority>>

\* Log::set_priority(Priority): SDL_LogSetAllPriority(p), then
\* SDL_LogSetPriority(SDL_LOG_CATEGORY_TEST, p).
Log_set_priority(prio) ==
    /\ variant = "none"
    /\ SDL_loglevels' =
          SDL_LogSetPriority(SDL_LogSetAllPriority(SDL_loglevels, prio),
                             SDL_LOG_CATEGORY_TEST, prio)
    /\ SDL_default_priority' = prio
    /\ SDL_assert_priority' = prio
    /\ SDL_application_priority' = prio
    /\ UNCHANGED <<outsideLog, SDL_test_priority>>

\* Log::get_priority(Category).
get_priority(category) == SDL_LogGetPriority(category)

LogPriorities == {Priority.Verbose, Priority.Warn, Priority.Critical}
LogCategories == {Category.App, Category["Assert"], Category.Video,
                  Category.Test, Category.Misc}
InitLog == NoTracker /\ NoOthers
NextLog ==
    \/ \E category \in LogCategories, prio \in LogPriorities :
          Log_set_priority_category(category, prio)
    \/ \E prio \in LogPriorities : Log_set_priority(prio)
SpecLog == InitLog /\ [][NextLog]_vars


(***************************************************************************)
(* Mirrored enumerations (src/centurion/video/blend_mode.hpp,              *)
(* src/music.cpp): an enum class whose enumerators take the values of a    *)
(* native enumeration, with comparison operators between the two.  A value *)
(* of the enum class is written as its enumerator, a native value as its   *)
(* number; static_cast looks the enumerator's value up.                    *)
(***************************************************************************)
\* enum class blend_mode, with the values of SDL_BlendMode.
blend_mode ==
    [none |-> 0, blend |-> 1, add |-> 2, mod |-> 4, mul |-> 8,
     invalid |-> 2147483647]

\* enum class FadeStatus, with the values of Mix_Fading.
FadeStatus ==
    [None |-> MIX_NO_FADING, In |-> MIX_FADING_IN, Out |-> MIX_FADING_OUT]

\* enum class MusicType, with the values of Mix_MusicType.
MusicType ==
    [Unknown |-> 0, CMD |-> 1, WAV |-> 2, MOD |-> 3, MIDI |-> 4, OGG |-> 5,
     MP3 |-> 6, FLAC |-> 8, OPUS |-> 10]

\* Mutant: the enumerators are taken to be numbered in declaration order.
eq_blend_mode_SDL_BlendMode_Ordinal(lhs, rhs) ==
    rhs = (CHOOSE i \in 0 .. 5 :
              <<"none", "blend", "add", "mod", "mul", "invalid">>[i + 1] = lhs)

\* operator==(blend_mode, SDL_BlendMode)
eq_blend_mode_SDL_BlendMode(lhs, rhs) == blend_mode[lhs] = rhs
\* operator==(SDL_BlendMode, blend_mode): rhs == lhs
eq_SDL_BlendMode_blend_mode(lhs, rhs) == eq_blend_mode_SDL_BlendMode(rhs, lhs)
\* operator!=(blend_mode, SDL_BlendMode): !(lhs == rhs)
ne_blend_mode_SDL_BlendMode(lhs, rhs) == ~eq_blend_mode_SDL_BlendMode(lhs, rhs)
\* operator!=(SDL_BlendMode, blend_mode): !(lhs == rhs)
ne_SDL_BlendMode_blend_mode(lhs, rhs) == ~eq_SDL_BlendMode_blend_mode(lhs, rhs)

\* operator==(FadeStatus, Mix_Fading) and operator==(Mix_Fading, FadeStatus)
eq_FadeStatus_Mix_Fading(lhs, rhs) == FadeStatus[lhs] = rhs
eq_Mix_Fading_FadeStatus(lhs, rhs) == lhs = FadeStatus[rhs]

\* operator==(MusicType, Mix_MusicType) and operator==(Mix_MusicType, MusicType)
eq_MusicType_Mix_MusicType(lhs, rhs) == MusicType[lhs] = rhs
eq_Mix_MusicType_MusicType(lhs, rhs) == lhs = MusicType[rhs]

\* The native values compared with: the mirrored ones, and others.
NativeValues ==
    [blend_mode |-> {blend_mode[e] : e \in DOMAIN blend_mode} \cup {3},
     FadeStatus |-> {FadeStatus[e] : e \in DOMAIN FadeStatus} \cup {3},
     MusicType |-> 0 .. 10]

\* One evaluation of the operators of an enumeration on e and n.
compare_blend_mode(e, n) ==
    /\ variant = "none"
    /\ compared' = <<"blend_mode", e, n,
                     eq_blend_mode_SDL_BlendMode(e, n),
                     eq_SDL_BlendMode_blend_mode(n, e),
                     ne_blend_mode_SDL_BlendMode(e, n),
                     ne_SDL_BlendMode_blend_mode(n, e)>>
    /\ UNCHANGED outsideEnums

compare_FadeStatus(e, n) ==
    /\ variant = "none"
    /\ compared' = <<"FadeStatus", e, n,
                     eq_FadeStatus_Mix_Fading(e, n),
                     eq_Mix_Fading_FadeStatus(n, e)>>
    /\ UNCHANGED outsideEnums

compare_MusicType(e, n) ==
    /\ variant = "none"
    /\ compared' = <<"MusicType", e, n,
                     eq_MusicType_Mix_MusicType(e, n),
                     eq_Mix_MusicType_MusicType(n, e)>>
    /\ UNCHANGED outsideEnums

InitEnums == NoTracker /\ NoOthers
NextEnums ==
    \/ \E e \in DOMAIN blend_mode, n \in NativeValues.blend_mode :
          compare_blend_mode(e, n)
    \/ \E e \in DOMAIN FadeStatus, n \in NativeValues.FadeStatus :
          compare_FadeStatus(e, n)
    \/ \E e \in DOMAIN MusicType, n \in NativeValues.MusicType :
          compare_MusicType(e, n)
SpecEnums == InitEnums /\ [][NextEnums]_vars


(***************************************************************************)
(* Music (src/music.cpp): an object owns a handle of the native mixer; the *)
(* mixer plays one music at a time, and fades and the volume are the       *)
(* mixer's.  Handles are 1, 2, ...; 0 is nullptr.                          *)
(***************************************************************************)
\* Mix_LoadMUS is called at most MaxLoads times.
MaxLoads == 2

\* Music::m_music before the body of a constructor runs.
Music_member_init == 0

\* The mixer stops fading or playing.
NoFade == music_fading' = MIX_NO_FADING /\ fade_ms' = 0
Halted == music_playing' = 0 /\ NoFade

\* Mix_FreeMusic(music): nothing for nullptr; else the handle is freed, and
\* a music that is playing is halted first.
Mix_FreeMusic(music) ==
    /\ Mix_freed' =
          IF music = 0 THEN Mix_freed
          ELSE [h \in DOMAIN Mix_freed \cup {music} |->
                   IF h # music THEN Mix_freed[h]
                   ELSE IF h \in DOMAIN Mix_freed THEN Mix_freed[h] + 1
                   ELSE 1]
    /\ IF music # 0 /\ music_playing = music THEN Halted
       ELSE UNCHANGED <<music_playing, music_fading, fade_ms>>
    /\ mixCall' = <<"Mix_FreeMusic", music>>

\* Music(file): Mix_LoadMUS returns a new handle, or nullptr and the
\* constructor throws.
Music_ctor(obj, loads) ==
    /\ variant = "none" /\ obj \notin DOMAIN m_music /\ Mix_loaded < MaxLoads
    /\ IF loads
       THEN /\ Mix_loaded' = Mix_loaded + 1
            /\ m_music' = m_music @@ (obj :> Mix_loaded + 1)
            /\ mixCall' = <<"Mix_LoadMUS", Mix_loaded + 1>>
            /\ musicCall' = <<"Music", obj>>
       ELSE /\ UNCHANGED <<Mix_loaded, m_music>>
            /\ mixCall' = <<"Mix_LoadMUS", 0>>
            /\ musicCall' = <<"Music", obj, "CenturionException">>
    /\ UNCHANGED <<outsideMusic, Mix_freed, music_playing, music_fading,
                   fade_ms, music_volume>>

\* Music(Music&& other)
Music_move_ctor(obj, other) ==
    /\ variant = "none" /\ obj \notin DOMAIN m_music /\ other \in DOMAIN m_music
    /\ Mix_FreeMusic(Music_member_init)
    /\ m_music' = [o \in DOMAIN m_music \cup {obj} |->
                      IF o = obj THEN m_music[other]
                      ELSE IF o = other THEN 0 ELSE m_music[o]]
    /\ musicCall' = <<"Music", obj, other>>
    /\ UNCHANGED <<outsideMusic, Mix_loaded, music_volume>>

\* ~Music()
Music_dtor(obj) ==
    /\ variant = "none" /\ obj \in DOMAIN m_music
    /\ IF m_music[obj] # 0 THEN Mix_FreeMusic(m_music[obj])
       ELSE UNCHANGED <<Mix_freed, music_playing, music_fading, fade_ms,
                        mixCall>>
    /\ m_music' = [o \in DOMAIN m_music \ {obj} |-> m_music[o]]
    /\ musicCall' = <<"~Music", obj>>
    /\ UNCHANGED <<outsideMusic, Mix_loaded, music_volume>>

\* Music::operator=(Music&& other): the three statements in order; other
\* may be the object itself.
Music_move_assign(obj, other) ==
    /\ variant = "none" /\ obj \in DOMAIN m_music /\ other \in DOMAIN m_music
    /\ Mix_FreeMusic(m_music[obj])
    /\ m_music' = [[m_music EXCEPT ![obj] = m_music[other]]
                      EXCEPT ![other] = 0]
    /\ musicCall' = <<"operator=", obj, other>>
    /\ UNCHANGED <<outsideMusic, Mix_loaded, music_volume>>

\* Mix_FadeInMusic(music, loops, ms), which Mix_PlayMusic calls with ms = 0:
\* nothing for nullptr; else the music plays, fading in if ms > 0.
Mix_FadeInMusic(music, loops, ms) ==
    /\ IF music = 0
       THEN UNCHANGED <<music_playing, music_fading, fade_ms>>
       ELSE /\ music_playing' = music
            /\ music_fading' = IF ms > 0 THEN MIX_FADING_IN ELSE MIX_NO_FADING
            /\ fade_ms' = IF ms > 0 THEN ms ELSE 0

\* Music::play(nLoops)
play(obj, nLoops) ==
    /\ variant = "none" /\ obj \in DOMAIN m_music
    /\ LET loops == IF nLoops < -1 THEN -1 ELSE nLoops
       IN  /\ Mix_FadeInMusic(m_music[obj], loops, 0)
           /\ mixCall' = <<"Mix_PlayMusic", m_music[obj], loops>>
    /\ musicCall' = <<"play", obj, nLoops>>
    /\ UNCHANGED <<outsideMusic, m_music, Mix_loaded, Mix_freed, music_volume>>

\* Music::halt()
halt ==
    /\ variant = "none"
    /\ Halted
    /\ mixCall' = <<"Mix_HaltMusic">>
    /\ musicCall' = <<"halt">>
    /\ UNCHANGED <<outsideMusic, m_music, Mix_loaded, Mix_freed, music_volume>>

\* Music::fade_in(ms, nLoops)
fade_in(obj, ms, nLoops) ==
    /\ variant = "none" /\ obj \in DOMAIN m_music
    /\ LET duration == IF ms < 0 THEN 0 ELSE ms
           loops == IF nLoops < -1 THEN -1 ELSE nLoops
       IN  /\ Mix_FadeInMusic(m_music[obj], loops, duration)
           /\ mixCall' = <<"Mix_FadeInMusic", m_music[obj], loops, duration>>
    /\ musicCall' = <<"fade_in", obj, ms, nLoops>>
    /\ UNCHANGED <<outsideMusic, m_music, Mix_loaded, Mix_freed, music_volume>>

\* Music::fade_status(): Mix_FadingMusic().
fade_status ==
    CHOOSE e \in DOMAIN FadeStatus : FadeStatus[e] = music_fading

\* Music::fading()
fading == fade_status = "In" \/ fade_status = "Out"

\* Mix_FadeOutMusic(ms): a halt for ms <= 0; else a music that is playing
\* starts to fade out over ms milliseconds.
Mix_FadeOutMusic(ms) ==
    /\ IF ms <= 0 THEN Halted
       ELSE IF music_playing # 0
       THEN /\ music_fading' = MIX_FADING_OUT
            /\ fade_ms' = ms
            /\ UNCHANGED music_playing
       ELSE UNCHANGED <<music_playing, music_fading, fade_ms>>
    /\ mixCall' = <<"Mix_FadeOutMusic", ms>>

\* Mutant: fade_out() does not ask whether a fade is in progress.
fade_out_Unguarded(ms) ==
    /\ variant = "none"
    /\ Mix_FadeOutMusic(IF ms < 0 THEN 0 ELSE ms)
    /\ musicCall' = <<"fade_out", ms>>
    /\ UNCHANGED <<outsideMusic, m_music, Mix_loaded, Mix_freed, music_volume>>

\* Music::fade_out(ms)
fade_out(ms) ==
    /\ variant = "none"
    /\ IF fading
       THEN UNCHANGED <<music_playing, music_fading, fade_ms, mixCall>>
       ELSE Mix_FadeOutMusic(IF ms < 0 THEN 0 ELSE ms)
    /\ musicCall' = <<"fade_out", ms>>
    /\ UNCHANGED <<outsideMusic, m_music, Mix_loaded, Mix_freed, music_volume>>

\* The mixer, on its own: a fade in progress comes to its end; a music that
\* faded out is halted.
FadeEnds ==
    /\ variant = "none" /\ music_fading # MIX_NO_FADING
    /\ IF music_fading = MIX_FADING_OUT THEN Halted
       ELSE NoFade /\ UNCHANGED music_playing
    /\ musicCall' = <<"none">>
    /\ UNCHANGED <<outsideMusic, m_music, Mix_loaded, Mix_freed, music_volume,
                   mixCall>>

\* Mix_VolumeMusic(volume): the volume before the call is returned; a
\* negative volume is a query, else the volume is set, MIX_MAX_VOLUME at most.
Mix_VolumeMusic(volume) ==
    [returned |-> music_volume,
     music_volume |-> IF volume < 0 THEN music_volume
                      ELSE IF volume > MIX_MAX_VOLUME THEN MIX_MAX_VOLUME
                      ELSE volume]

\* Mutant: only the upper limit is applied.
set_volume_NoLowerLimit(volume) ==
    /\ variant = "none"
    /\ LET v == IF volume > MIX_MAX_VOLUME THEN MIX_MAX_VOLUME ELSE volume
       IN  /\ music_volume' = Mix_VolumeMusic(v).music_volume
           /\ mixCall' = <<"Mix_VolumeMusic", v>>
    /\ musicCall' = <<"set_volume", volume>>
    /\ UNCHANGED <<outsideMusic, m_music, Mix_loaded, Mix_freed, music_playing,
                   music_fading, fade_ms>>

\* Music::set_volume(volume)
set_volume(volume) ==
    /\ variant = "none"
    /\ LET v == IF volume > MIX_MAX_VOLUME THEN MIX_MAX_VOLUME
                ELSE IF volume < 0 THEN 0 ELSE volume
       IN  /\ music_volume' = Mix_VolumeMusic(v).music_volume
           /\ mixCall' = <<"Mix_VolumeMusic", v>>
    /\ musicCall' = <<"set_volume", volume>>
    /\ UNCHANGED <<outsideMusic, m_music, Mix_loaded, Mix_freed, music_playing,
                   music_fading, fade_ms>>

\* Music::volume(): Mix_VolumeMusic(-1).
volume == Mix_VolumeMusic(-1).returned

Objects == {"a", "b"}
InitMusic == NoTracker /\ NoOthers

\* Ownership: construction, moves and destruction, of music that may play.
NextMusic ==
    \/ \E obj \in Objects, loads \in BOOLEAN : Music_ctor(obj, loads)
    \/ \E obj \in Objects, other \in Objects : Music_move_ctor(obj, other)
    \/ \E obj \in Objects, other \in Objects : Music_move_assign(obj, other)
    \/ \E obj \in Objects : Music_dtor(obj)
    \/ \E obj \in Objects : play(obj, 0)
SpecMusic == InitMusic /\ [][NextMusic]_vars

\* The mixer: one Music object, played, faded and set to a volume.
NextMixer ==
    \/ Music_ctor("a", TRUE)
    \/ \E nLoops \in {-2, 0} : play("a", nLoops)
    \/ halt
    \/ \E ms \in {-5, 200}, nLoops \in {-2, 0} : fade_in("a", ms, nLoops)
    \/ \E ms \in {-5, 0, 300} : fade_out(ms)
    \/ FadeEnds
    \/ \E v \in {-5, -1, 0, 64, MIX_MAX_VOLUME, MIX_MAX_VOLUME + 1} :
          set_volume(v)
SpecMixer == InitMusic /\ [][NextMixer]_vars


(***************************************************************************)
(* Properties.                                                             *)
(***************************************************************************)
Returned == status' = "running"

\* A step is an update() call that returned; its arguments are the ones the
\* step records in rawX, rawY and used.
UpdateReturned(S) ==
    /\ Returned
    /\ \E mask \in S.Masks :
          \/ mouse_state_update(used'.w, used'.h, rawX', rawY', mask)
          \/ MouseState_update(rawX', rawY', mask)

\* trunc(raw * logical / window) in exact arithmetic (raw >= 0, window >= 1).
ExactRemap(raw, window, logical) == (raw * logical) \div window
IsExactMultiple(raw, window, logical) == (raw * logical) % window = 0

\* C1: every update() that returns leaves in (oldX, oldY, prevLeftPressed,
\* prevRightPressed) the values (mouseX, mouseY, leftPressed, rightPressed)
\* held just before the call; before the first update() they are 0/0/false/false.
C1_HistoryLagsOneUpdate ==
    /\ [](updates = 0 =>
            /\ oldX = 0 /\ oldY = 0
            /\ ~prevLeftPressed /\ ~prevRightPressed)
    /\ [][UpdateReturned(General) =>
            /\ oldX' = mouseX /\ oldY' = mouseY
            /\ prevLeftPressed' = leftPressed
            /\ prevRightPressed' = rightPressed]_vars

C1_Witness ==
    /\ updates = MaxUpdates
    /\ oldX = 7 /\ mouseX = 0 /\ oldY = 1 /\ mouseY = 0
    /\ prevLeftPressed /\ ~leftPressed

\* C2: logical_width() >= 1 and logical_height() >= 1 in every reachable
\* state, whatever arguments the setters were given.
C2_LogicalDimsAtLeastOne == logical_width >= 1 /\ logical_height >= 1

\* the logical width was 2 at the last update() and is back at 1: reset or a
\* setter given a value <= 0 has acted since
C2_Witness == used.lw = 2 /\ logical_width = 1 /\ logical_height = 2

\* C3: the window dimensions MouseState stores are always >= 1.
C3_WindowDimsAtLeastOne ==
    variant = "MouseState" => windowWidth >= 1 /\ windowHeight >= 1

\* C4: update() never fails: the divisors of the remapping are >= 1 and no
\* update() ends in an error.
C4_UpdateNeverFails ==
    status = "running" /\ used.dw >= 1 /\ used.dh >= 1

\* C5: in both classes, after update() with rawX * logicalWidth an exact
\* multiple of the window width, mouseX = rawX * logicalWidth / windowWidth
\* (so 400 at window width 800, logical width 400 gives 200); y likewise.
C5_ExactMultiplesScaleExactly ==
    (updates > 0 /\ used.dw >= 1 /\ used.dh >= 1) =>
        /\ IsExactMultiple(rawX, used.dw, used.lw) =>
              mouseX = ExactRemap(rawX, used.dw, used.lw)
        /\ IsExactMultiple(rawY, used.dh, used.lh) =>
              mouseY = ExactRemap(rawY, used.dh, used.lh)

\* C6 as claimed: mouse_state::update stores the truncation of the exact
\* product (rawX / max(windowWidth, 1)) * logicalWidth; y likewise.
C6_StoresExactProduct ==
    (variant = "mouse_state" /\ updates > 0) =>
        /\ mouseX = ExactRemap(rawX, max(used.w, 1), used.lw)
        /\ mouseY = ExactRemap(rawY, max(used.h, 1), used.lh)

\* C6 as amended: the ratio is rounded to single precision before scaling,
\* so mouse_state::update stores trunc(rawX * logicalWidth / max(windowWidth, 1))
\* when rawX * logicalWidth is no multiple of max(windowWidth, 1), and that
\* value or one less when it is; y likewise.
WithinOneBelow(stored, raw, window, logical) ==
    LET exact == ExactRemap(raw, window, logical)
    IN  /\ exact - 1 <= stored /\ stored <= exact
        /\ ~IsExactMultiple(raw, window, logical) => stored = exact

C6_StoresRoundedProduct ==
    (variant = "mouse_state" /\ updates > 0) =>
        /\ WithinOneBelow(mouseX, rawX, max(used.w, 1), used.lw)
        /\ WithinOneBelow(mouseY, rawY, max(used.h, 1), used.lh)

\* 7 of 23 pixels, scaled to 23 logical units, is stored as 6
C6_Witness ==
    /\ variant = "mouse_state" /\ updates > 0
    /\ rawX = 7 /\ used.w = 23 /\ used.lw = 23 /\ mouseX = 6

\* C7: after every update(), was_left_button_released() is true iff the left
\* button was pressed in the snapshot of the preceding update() and is not
\* pressed in the current one; the same for the right button.
C7_ReleasedIsFallingEdge ==
    [][UpdateReturned(Buttons) =>
          /\ was_left_button_released' = (leftPressed /\ ~leftPressed')
          /\ was_right_button_released' = (rightPressed /\ ~rightPressed')]_vars

C7_Witness ==
    /\ updates = MaxUpdates
    /\ was_left_button_released /\ ~was_right_button_released
    /\ rightPressed /\ prevRightPressed

\* C8: was_left_button_released() and was_right_button_released() are false
\* on a fresh tracker and after the first update(), whatever mask it reads.
C8_NoReleaseBeforeSecondUpdate ==
    updates <= 1 => ~was_left_button_released /\ ~was_right_button_released

C8_Witness == updates = 1 /\ leftPressed /\ rightPressed

\* Two consecutive update() calls: the step is the second, the unprimed
\* rawX, rawY and used are those of the first.
SecondUpdate(S) == updates >= 1 /\ UpdateReturned(S)
SameRaw == rawX' = rawX /\ rawY' = rawY

\* at least one logical unit apart after exact scaling: |a/b - c/d| >= 1
ApartByOne(a, b, c, d) ==
    LET diff == a * d - c * b
    IN  (IF diff < 0 THEN -diff ELSE diff) >= b * d

\* C9 as claimed: after two consecutive update() calls with identical raw
\* coordinates was_mouse_moved() is false, whatever dimensions are in force
\* at each call; it is true when the raw positions are at least one logical
\* unit apart after scaling.
C9_MovedFollowsRawPosition ==
    [][SecondUpdate(General) =>
          /\ SameRaw => ~was_mouse_moved'
          /\ (used.dw >= 1 /\ used.dh >= 1 /\ used'.dw >= 1 /\ used'.dh >= 1
              /\ (\/ ApartByOne(rawX' * used'.lw, used'.dw,
                                rawX * used.lw, used.dw)
                  \/ ApartByOne(rawY' * used'.lh, used'.dh,
                                rawY * used.lh, used.dh)))
             => was_mouse_moved']_vars

\* C9 as amended: with the same window and logical dimensions in force at
\* both calls, identical raw coordinates leave was_mouse_moved() false; and
\* it is true whenever the positions the two calls stored differ.
C9_MovedFollowsStoredPosition ==
    [][SecondUpdate(General) =>
          /\ (SameRaw /\ used' = used) => ~was_mouse_moved'
          /\ (mouseX' # mouseX \/ mouseY' # mouseY) => was_mouse_moved']_vars

\* the same raw position twice, scaled to 23 logical units both times
C9_Witness ==
    /\ updates = MaxUpdates /\ rawX = 7 /\ rawY = 1
    /\ used.dw = 1 /\ used.lw = 23
    /\ mouseX = 161 /\ oldX = 161 /\ mouseY = oldY
    /\ ~was_mouse_moved

\* C10: was_mouse_moved() is true iff (mouseX, mouseY) differs from
\* (oldX, oldY) in at least one coordinate.
C10_MovedIffPositionDiffers ==
    was_mouse_moved = (<<mouseX, mouseY>> # <<oldX, oldY>>)

\* y alone has changed
C10_Witness == mouseX = oldX /\ mouseX = 7 /\ mouseY # oldY /\ was_mouse_moved

\* The operations as the application calls them, whichever class it uses.
reset == mouse_state_reset \/ MouseState_reset
set_logical_width(w) ==
    mouse_state_set_logical_width(w) \/ MouseState_set_logical_width(w)
set_logical_height(h) ==
    mouse_state_set_logical_height(h) \/ MouseState_set_logical_height(h)
set_window_width(w) == MouseState_set_window_width(w)
set_window_height(h) == MouseState_set_window_height(h)

\* C11: every reset() leaves logical width and height at 1, and in MouseState
\* the window width and height at 1, whatever they were; it leaves mouseX,
\* mouseY, oldX, oldY and the four button flags as they were.
C11_ResetRestoresDimensionsOnly ==
    [][reset =>
          /\ logical_width' = 1 /\ logical_height' = 1
          /\ variant = "MouseState" => windowWidth' = 1 /\ windowHeight' = 1
          /\ UNCHANGED history]_vars

\* every dimension was above 1 at the last update() and is 1 now, with a
\* pressed button and a position away from the origin in the history
C11_Witness ==
    /\ variant = "MouseState" /\ updates = MaxUpdates
    /\ used.w = 23 /\ used.lw = 23 /\ used.lh = 2
    /\ windowWidth = 1 /\ windowHeight = 1
    /\ logical_width = 1 /\ logical_height = 1
    /\ oldX = 161 /\ leftPressed /\ rightPressed

\* C12: each setter stores max(v, 1) in its own field: 1 for v <= 0 and v
\* for v > 0, for set_logical_width, set_logical_height, set_window_width
\* and set_window_height alike.
C12_SettersStoreMaxOfArgumentAndOne ==
    [][/\ \A w \in Dims.LWs :
             set_logical_width(w) =>
                logical_width' = (IF w <= 0 THEN 1 ELSE w)
       /\ \A h \in Dims.LHs :
             set_logical_height(h) =>
                logical_height' = (IF h <= 0 THEN 1 ELSE h)
       /\ \A w \in Dims.Ws :
             set_window_width(w) => windowWidth' = (IF w <= 0 THEN 1 ELSE w)
       /\ \A h \in Dims.Hs :
             set_window_height(h) => windowHeight' = (IF h <= 0 THEN 1 ELSE h)
      ]_vars

\* since the last update() the logical width and the window height went from
\* 1 to 2, the logical height and the window width from 2 to 1
C12_Witness ==
    /\ variant = "MouseState" /\ updates > 0
    /\ used.lw = 1 /\ used.lh = 2 /\ used.w = 2 /\ used.h = 1
    /\ logical_width = 2 /\ logical_height = 1
    /\ windowWidth = 1 /\ windowHeight = 2

\* C13: a step that changes mouseX, mouseY, oldX, oldY or a button flag is an
\* update(); the setters, window_updated and reset leave them alone, and a
\* setter leaves every dimension but its own alone.
C13_OnlyUpdateChangesHistory ==
    [][/\ ~(UNCHANGED history) => UpdateReturned(Tracking)
       /\ (\/ reset
           \/ \E window \in Tracking.Wins : window_updated(window)
           \/ \E w \in Tracking.LWs : set_logical_width(w)
           \/ \E h \in Tracking.LHs : set_logical_height(h)
           \/ \E w \in Tracking.Ws : set_window_width(w)
           \/ \E h \in Tracking.Hs : set_window_height(h))
          => UNCHANGED history
       /\ (\E w \in Tracking.LWs : set_logical_width(w))
          => UNCHANGED <<logicalHeight, windowWidth, windowHeight>>
       /\ (\E h \in Tracking.LHs : set_logical_height(h))
          => UNCHANGED <<logicalWidth, windowWidth, windowHeight>>
       /\ (\E w \in Tracking.Ws : set_window_width(w))
          => UNCHANGED <<logicalWidth, logicalHeight, windowHeight>>
       /\ (\E h \in Tracking.Hs : set_window_height(h))
          => UNCHANGED <<logicalWidth, logicalHeight, windowWidth>>]_vars

\* the window width alone has changed since the last update(); the history
\* holds a pressed button and two different positions
C13_Witness ==
    /\ variant = "MouseState" /\ updates = MaxUpdates
    /\ used.w = 1 /\ windowWidth = 23 /\ windowHeight = used.h
    /\ logical_width = used.lw /\ logical_height = used.lh
    /\ logical_width = 23 /\ logical_height = 2
    /\ mouseX = 161 /\ oldX = 0 /\ leftPressed /\ ~prevLeftPressed

\* C14: in the state a set_logical_width(w) call leaves, a second
\* set_logical_width(w) changes nothing: the state, and with it every
\* accessor and every later update(), is the same after two calls as after
\* one.
C14_SetLogicalWidthIdempotent ==
    [][\A w \in Dims.LWs :
          set_logical_width(w) =>
             (ENABLED (set_logical_width(w) /\ UNCHANGED vars))']_vars

\* set_logical_width(2) has acted since the last update()
C14_Witness == updates > 0 /\ used.lw = 1 /\ logical_width = 2


\* The native call was made by the last constructor and returned result.
Reported(call, result) == call \in DOMAIN native /\ native[call] = result

\* C15: when a native initialisation call of a configured subsystem reports
\* failure, the constructor does not return: it fails with core_error for
\* SDL_Init < 0, img_error for IMG_Init == 0, ttf_error for TTF_Init == -1,
\* mix_error for Mix_Init == 0 or Mix_OpenAudio == -1.
C15_FailedInitialisationThrows ==
    /\ Reported("SDL_Init", -1) => libState = "core_error"
    /\ Reported("IMG_Init", 0) => libState = "img_error"
    /\ Reported("TTF_Init", -1) => libState = "ttf_error"
    /\ (Reported("Mix_Init", 0) \/ Reported("Mix_OpenAudio", -1))
          => libState = "mix_error"


\* C16: for a hint of any class, get_hint<Hint>() returns std::nullopt when
\* no value is set under the hint's name, and a value only when one is set.
C16_UnsetHintIsNullopt ==
    \A Hint \in Hints :
        LET got == get_hint(Hint)
        IN  /\ ~IsSet(name(Hint)) =>
                  got.threw = "none" /\ Cardinality(got.optional) = 0
            /\ Cardinality(got.optional) > 0 => IsSet(name(Hint))


\* C17: no hint_callback object holds a null callback, no null callback is
\* registered, and a null callback never ends the process: on every path
\* that creates a handle the failure is an exception the caller can catch.
C17_NullCallbackIsCatchable ==
    /\ \A handle \in handles : handle.m_callback # nullptr
    /\ \A entry \in registered : entry.callback # nullptr
    /\ hintOutcome # "terminate"


\* The four style queries of a Font.
StyleQueries == <<IsBold, IsItalic, IsUnderlined, IsStrikethrough>>

\* C18: a newly created font has the four styles off; after a style setter
\* the query of that style returns the argument; and a style setter leaves
\* the other three queries as they were.
C18_StyleSettersAreIndependent ==
    /\ [](fontCall = <<"Font">> => StyleQueries = <<FALSE, FALSE, FALSE, FALSE>>)
    /\ [][\A on \in BOOLEAN :
            /\ SetBold(on) =>
                  /\ IsBold' = on
                  /\ UNCHANGED <<IsItalic, IsUnderlined, IsStrikethrough>>
            /\ SetItalic(on) =>
                  /\ IsItalic' = on
                  /\ UNCHANGED <<IsBold, IsUnderlined, IsStrikethrough>>
            /\ SetUnderlined(on) =>
                  /\ IsUnderlined' = on
                  /\ UNCHANGED <<IsBold, IsItalic, IsStrikethrough>>
            /\ SetStrikethrough(on) =>
                  /\ IsStrikethrough' = on
                  /\ UNCHANGED <<IsBold, IsItalic, IsUnderlined>>]_vars

\* italic has just been cleared on a font that stays bold and struck through
C18_Witness ==
    /\ fontCall = <<"SetItalic", FALSE>>
    /\ StyleQueries = <<TRUE, FALSE, FALSE, TRUE>>

\* C19: after ResetStyle() the four style queries return false, whatever
\* style setters were called before.
C19_ResetClearsStyles ==
    [][ResetStyle => StyleQueries' = <<FALSE, FALSE, FALSE, FALSE>>]_vars

\* ResetStyle() has been called on a font that had all four styles set
C19_Witness ==
    /\ fontCall = <<"ResetStyle", SumOf(StyleBits)>>
    /\ StyleQueries = <<FALSE, FALSE, FALSE, FALSE>>

\* C20: after Log::set_priority(prio), Log::get_priority(c) returns prio for
\* every category c: App, Error, Assert, System, Audio, Video, Render, Input,
\* Test and Misc.
C20_SetPriorityCoversEveryCategory ==
    [][\A prio \in LogPriorities :
          Log_set_priority(prio) =>
              \A c \in Categories : get_priority(c)' = prio]_vars

\* every category reports Warn, the test category among them and by an
\* entry only, and with an entry for the video category that had to be
\* overwritten
C20_Witness ==
    /\ \A c \in Categories : get_priority(c) = Priority.Warn
    /\ SDL_test_priority # Priority.Warn
    /\ Category.Video \in DOMAIN SDL_loglevels


\* The underlying value of the enumerator compared last.
UnderlyingValue ==
    IF compared[1] = "blend_mode" THEN blend_mode[compared[2]]
    ELSE IF compared[1] = "FadeStatus" THEN FadeStatus[compared[2]]
    ELSE MusicType[compared[2]]

\* C21: for an enumerator e of a mirrored enumeration and a native value n,
\* e == n and n == e both say whether the underlying value of e is n, and
\* (for blend_mode) e != n and n != e both say the opposite.
C21_ComparisonIsSymmetric ==
    compared # <<"none">> =>
        /\ compared[4] = (UnderlyingValue = compared[3])
        /\ compared[5] = compared[4]
        /\ compared[1] = "blend_mode" =>
              /\ compared[6] = ~compared[4]
              /\ compared[7] = compared[6]

\* blend_mode::mod, the fourth enumerator, compared with its value 4
C21_Witness ==
    compared = <<"blend_mode", "mod", 4, TRUE, TRUE, FALSE, FALSE>>


\* What update() of class v stores for a raw coordinate, a window dimension
\* of at least 1 and a logical dimension.
StoredBy(v, raw, window, logical) ==
    IF v = "mouse_state" THEN FloatRemap(raw, window, logical)
    ELSE MouseState_remap(raw, window, logical)

\* After an update() with window dimensions of at least 1: the class that
\* ran stored what StoredBy gives for it.
ComparableUpdate ==
    /\ updates > 0 /\ used.w >= 1 /\ used.h >= 1
    /\ mouseX = StoredBy(variant, rawX, used.w, used.lw)
    /\ mouseY = StoredBy(variant, rawY, used.h, used.lh)

\* C22 as claimed: from the same raw coordinate, window dimension and
\* logical dimension the two classes store different coordinates exactly
\* when raw / window is not an integer.
C22_DifferExactlyOnFractions ==
    ComparableUpdate =>
        /\ (StoredBy("mouse_state", rawX, used.w, used.lw)
              # StoredBy("MouseState", rawX, used.w, used.lw))
           = (rawX % used.w # 0)
        /\ (StoredBy("mouse_state", rawY, used.h, used.lh)
              # StoredBy("MouseState", rawY, used.h, used.lh))
           = (rawY % used.h # 0)

\* C22 as amended: the two classes store the same coordinate whenever
\* raw / window is an integer (so they differ only when it is not), and
\* MouseState never stores the larger one.
C22_SameOnWholeRatios ==
    (updates > 0 /\ used.w >= 1 /\ used.h >= 1) =>
        /\ ComparableUpdate
        /\ rawX % used.w = 0 =>
              StoredBy("mouse_state", rawX, used.w, used.lw)
                 = StoredBy("MouseState", rawX, used.w, used.lw)
        /\ rawY % used.h = 0 =>
              StoredBy("mouse_state", rawY, used.h, used.lh)
                 = StoredBy("MouseState", rawY, used.h, used.lh)
        /\ StoredBy("MouseState", rawX, used.w, used.lw)
              <= StoredBy("mouse_state", rawX, used.w, used.lw)
        /\ StoredBy("MouseState", rawY, used.h, used.lh)
              <= StoredBy("mouse_state", rawY, used.h, used.lh)

\* MouseState has stored 10 for 46 of 23 pixels at logical width 5, which is
\* what mouse_state stores for them
C22_Witness ==
    /\ variant = "MouseState" /\ updates > 0
    /\ rawX = 46 /\ used.w = 23 /\ used.lw = 5 /\ mouseX = 10
    /\ StoredBy("mouse_state", rawX, used.w, used.lw) = 10


\* C23: after update(), leftPressed says whether bit 0 of the mask polled
\* is set (the mask is odd) and rightPressed whether bit 2 is set, whatever
\* the bits of the middle and the extra buttons are.
C23_PressedFollowsOwnBit ==
    updates > 0 =>
        /\ leftPressed = (rawMask % 2 = 1)
        /\ rightPressed = ((rawMask \div 4) % 2 = 1)

\* the left button alone is reported for a mask that also holds the middle
\* and both extra buttons
C23_Witness ==
    /\ updates > 0
    /\ rawMask = 1 + 2 + 8 + 16
    /\ leftPressed /\ ~rightPressed


ShutDownCount(library) ==
    Cardinality({i \in DOMAIN shutdowns : shutdowns[i] = library})
InitialisedBy(call, failure) ==
    call \in DOMAIN native /\ native[call] # failure

\* C25: over the lifetime of a centurion_lib object (the constructor, failed
\* initialisations included, and the destructor) SDL core, SDL_image,
\* SDL_ttf and SDL_mixer are each shut down at most once if their
\* initialisation succeeded and not at all otherwise; and when the four
\* were initialised, the destructor shuts SDL core down last.
C25_ShutDownOncePerInitialisation ==
    /\ ShutDownCount("SDL")
          <= (IF InitialisedBy("SDL_Init", -1) THEN 1 ELSE 0)
    /\ ShutDownCount("IMG")
          <= (IF InitialisedBy("IMG_Init", 0) THEN 1 ELSE 0)
    /\ ShutDownCount("TTF")
          <= (IF InitialisedBy("TTF_Init", -1) THEN 1 ELSE 0)
    /\ ShutDownCount("MIX")
          <= (IF InitialisedBy("Mix_Init", 0) THEN 1 ELSE 0)
    /\ (/\ libState = "none" /\ shutdowns # <<>>
        /\ InitialisedBy("SDL_Init", -1) /\ InitialisedBy("IMG_Init", 0)
        /\ InitialisedBy("TTF_Init", -1) /\ InitialisedBy("Mix_Init", 0)
        /\ InitialisedBy("Mix_OpenAudio", -1))
       => shutdowns[Len(shutdowns)] = "SDL"

\* Number of times Mix_FreeMusic was given the handle h.
TimesFreed(h) == IF h \in DOMAIN Mix_freed THEN Mix_freed[h] ELSE 0

\* Number of live Music objects that hold the handle h.
Holders(h) == Cardinality({o \in DOMAIN m_music : m_music[o] = h})

\* C26: a move assignment a = std::move(b) leaves a with b's handle, b with
\* nullptr and a's former handle freed once; a = std::move(a) leaves a with
\* its handle, not freed; and at all times every loaded handle is either
\* held by one object and not freed, or held by none and freed once.
C26_MoveTransfersOwnership ==
    [][/\ \A a \in Objects, b \in Objects :
             musicCall' = <<"operator=", a, b>> =>
                \A former \in {m_music[a]}, moved \in {m_music[b]} :
                   IF a = b
                   THEN /\ m_music'[a] = former
                        /\ TimesFreed(former)' = 0
                   ELSE /\ m_music'[a] = moved
                        /\ m_music'[b] = 0
                        /\ former # 0 =>
                              TimesFreed(former)' = TimesFreed(former) + 1
       /\ \A h \in 1..Mix_loaded' : Holders(h)' + TimesFreed(h)' = 1]_vars

\* C29: fade_out(ms) changes nothing in the mixer, and calls nothing of it,
\* while a fade in or a fade out is in progress; with no fade in progress it
\* calls Mix_FadeOutMusic with max(ms, 0), and a music that is playing
\* starts to fade out over that time if it is positive.
C29_FadeOutOnlyWhenNotFading ==
    [][musicCall'[1] = "fade_out" =>
          \A ms \in {musicCall'[2]} :
             IF music_fading \in {MIX_FADING_IN, MIX_FADING_OUT}
             THEN UNCHANGED <<music_playing, music_fading, fade_ms, mixCall>>
             ELSE /\ mixCall' = <<"Mix_FadeOutMusic", IF ms > 0 THEN ms ELSE 0>>
                  /\ (music_playing # 0 /\ ms > 0) =>
                        /\ music_fading' = MIX_FADING_OUT
                        /\ fade_ms' = ms]_vars

\* fade_out(300) was called during a fade-in of 200 ms, which goes on.
C29_Witness ==
    /\ musicCall = <<"fade_out", 300>>
    /\ music_fading = MIX_FADING_IN
    /\ fade_ms = 200
    /\ mixCall[1] = "Mix_FadeInMusic"

\* C30: set_volume(v) passes to the mixer a volume in [0, MIX_MAX_VOLUME],
\* which volume() then reports: MIX_MAX_VOLUME for v above it, 0 for a
\* negative v (never the mixer's query -1), v itself otherwise.
C30_VolumeIsClamped ==
    [][musicCall'[1] = "set_volume" =>
          \A v \in {musicCall'[2]} :
             \E passed \in 0..MIX_MAX_VOLUME :
                /\ mixCall' = <<"Mix_VolumeMusic", passed>>
                /\ volume' = passed
                /\ v > MIX_MAX_VOLUME => passed = MIX_MAX_VOLUME
                /\ v < 0 => passed = 0
                /\ v \in 0..MIX_MAX_VOLUME => passed = v]_vars

\* set_volume(-1) was called: the mixer was given 0 and the volume is 0.
C30_Witness ==
    /\ musicCall = <<"set_volume", -1>>
    /\ mixCall = <<"Mix_VolumeMusic", 0>>
    /\ volume = 0

\* C27: for every enum-valued hint class and the boolean hints, a set_hint
\* of a value that returns true (the text of to_string was stored) is
\* followed by a get_hint that yields that value: current_value parses the
\* text of to_string(v) back to v.
C27_SetHintThenGetHint ==
    [][hintReturned' =>
          \A Hint \in {H \in RoundTripHints : name(H) \in DOMAIN hints'} :
             \A value \in Enumerators(Hint),
                priority \in {SDL_HINT_DEFAULT, SDL_HINT_NORMAL,
                              SDL_HINT_OVERRIDE} :
                set_hint(Hint, priority, value) =>
                   get_hint(Hint)' = Returns({value})]_vars

\* wave_riff_chunk_size was set to ignore, stored as "ignore", whose test
\* in current_value comes after that of "ignorezero".
C27_Witness ==
    /\ hintReturned
    /\ IsSet("SDL_WAVE_RIFF_CHUNK_SIZE")
    /\ SDL_GetHint("SDL_WAVE_RIFF_CHUNK_SIZE") = Characters["ignore"]
    /\ get_hint("wave_riff_chunk_size") = Returns({"ignore"})

\* C28: get_hint of an int, unsigned int or float hint never ends the
\* process and never raises: whatever text is stored under the name of the
\* hint, the call returns a value or std::nullopt.
C28_GetHintAlwaysReturns ==
    /\ hintOutcome # "terminate"
    /\ \A Hint \in NumericHints : get_hint(Hint).threw = "none"

=============================================================================
